---------------------------- MODULE Spec2Model ----------------------------
(***************************************************************************)
(* Conversational order state machine of the B2B catalog assistant         *)
(* (src/conversation_system.py) together with the channel adapters that    *)
(* dispatch a message to one of its handlers (src/whatsapp_flask_bridge.py,*)
(* src/whatsapp_bot.py, src/web_chat/app.py, src/test_conversation.py).    *)
(*                                                                         *)
(* One session (one B2BConversationSystem and its ConversationContext) is  *)
(* modelled.  The understanding oracle and the catalog database are        *)
(* external: what they answer on a turn is an input of that turn.          *)
(***************************************************************************)
EXTENDS Integers, Sequences, FiniteSets, TLC

(***************************************************************************)
(* Encoding of Python values.                                              *)
(*   None for an optional number is -1 (the numbers of the model are >= 0) *)
(*   None for an optional string is "none"                                 *)
(***************************************************************************)
None == 0 - 1
NoBrand == "none"
NoQuery == "none"

\* Python truthiness of an optional number: None and 0 are falsy.
Truthy(v) == v # None /\ v # 0

(***************************************************************************)
(* Bounds of the model.                                                    *)
(***************************************************************************)
MaxStock == 1
MaxQty == 2
\* requests of one identity the HTTP server works on at the same time
MaxRequests == 2

StockLevels == 0..MaxStock

(***************************************************************************)
(* Program constants.                                                      *)
(***************************************************************************)
DiameterLimit == 1000
StrokeLimit == 2000
\* confidence is kept in tenths: 0.7 is 7, the regex fallback's 0.6 is 6
ConfidenceThreshold == 7
FallbackConfidence == 6
\* the confidence of the reply extract_specifications builds when the
\* oracle's text is not JSON: 0.3
MalformedConfidence == 3
BaseScore == 800
FeatureBonus == 200
\* ORDER BY p.malzeme_adi LIMIT 20
RowLimit == 20

(***************************************************************************)
(* The catalog (tables products / inventory).  A product name is kept as   *)
(* the sequence of its digit runs; run i has the number n and the flag tok *)
(* (the run is a standalone token for the regex \b\d+\b); seps[i] is the   *)
(* text between run i and run i+1: "*", "x", "/", "-", " " or "far" (more  *)
(* than ten characters).  words are the feature names one of whose         *)
(* keywords occurs in the lower-cased name; tags are the keyword classes   *)
(* whose LIKE pattern the name matches; code is malzeme_kodu.  Rows are    *)
(* listed in ORDER BY malzeme_adi order.                                   *)
(*   1  "ANS 100*200 SIL TAMIR TAKIMI"   tags: "tamir"                     *)
(*   2  "ANS 50*200 MANYETIK SIL"        tags: "manyetik", "ans50"         *)
(*   3  "ANS 50*200 SIL"                 tags: "ans50"                     *)
(***************************************************************************)
Run(n, tok) == [n |-> n, tok |-> tok]

Catalog ==
  << [id |-> 1, runs |-> <<Run(100, TRUE), Run(200, TRUE)>>, seps |-> <<"*">>,
      words |-> {}, tags |-> {"tamir"}, code |-> "17P1040"],
     [id |-> 2, runs |-> <<Run(50, TRUE), Run(200, TRUE)>>, seps |-> <<"*">>,
      words |-> {"magnetic"}, tags |-> {"manyetik", "ans50"}, code |-> "17P2050"],
     [id |-> 3, runs |-> <<Run(50, TRUE), Run(200, TRUE)>>, seps |-> <<"*">>,
      words |-> {}, tags |-> {"ans50"}, code |-> "17P3050"] >>

ProductIds == 1..Len(Catalog)

(***************************************************************************)
(* Decimal substring tests on digit runs.                                  *)
(***************************************************************************)
Pow10(k) == IF k = 0 THEN 1 ELSE IF k = 1 THEN 10 ELSE IF k = 2 THEN 100
            ELSE IF k = 3 THEN 1000 ELSE IF k = 4 THEN 10000 ELSE 100000

\* the decimal text of a ends with the decimal text of d (d >= 1)
EndsWith(a, d) == \E k \in 1..5 : Pow10(k-1) <= d /\ d < Pow10(k) /\ a % Pow10(k) = d

\* the decimal text of b starts with the decimal text of s (s >= 1)
StartsWith(b, s) == \E k \in 0..4 : b \div Pow10(k) = s

\* the decimal text of a contains the decimal text of d
Contains(a, d) == \E k \in 0..4 : EndsWith(a \div Pow10(k), d)


(***************************************************************************)
(* CatalogQueryPort: the queries of conversation_system.py.  st is the     *)
(* inventory.current_stock column as the database answers it on this call. *)
(***************************************************************************)
RECURSIVE SeqToSet(_)
SeqToSet(q) == IF q = <<>> THEN {} ELSE {Head(q)} \cup SeqToSet(Tail(q))

Product(id) == Catalog[id]

\* WHERE malzeme_adi ~* pattern1 OR pattern2 OR pattern3: the digits of d,
\* one to ten non-digit characters, the digits of s
SqlMatch(p, d, s) ==
  \E i \in 1..Len(p.seps) :
     /\ EndsWith(p.runs[i].n, d)
     /\ StartsWith(p.runs[i+1].n, s)
     /\ p.seps[i] # "far"

\* numbers = re.findall(r'\b\d+\b', name_upper)
Numbers(p) ==
  LET toks == SelectSeq(p.runs, LAMBDA r : r.tok)
  IN  [i \in 1..Len(toks) |-> toks[i].n]

\* the position loop of the post-filter (0-based positions, -1 when absent)
RECURSIVE ScanPositions(_, _, _, _, _, _)
ScanPositions(nums, i, d, s, dpos, spos) ==
  IF i > Len(nums) THEN <<dpos, spos>>
  ELSE IF nums[i] = d /\ dpos = 0 - 1
       THEN ScanPositions(nums, i + 1, d, s, i - 1, spos)
       ELSE IF nums[i] = s /\ spos = 0 - 1
            THEN ScanPositions(nums, i + 1, d, s, dpos, i - 1)
            ELSE ScanPositions(nums, i + 1, d, s, dpos, spos)

Abs(x) == IF x < 0 THEN 0 - x ELSE x

\* POST-FILTER of search_exact_product
PostFilter(p, d, s) ==
  LET nums == Numbers(p)
      pos == ScanPositions(nums, 1, d, s, 0 - 1, 0 - 1)
  IN  /\ d \in SeqToSet(nums)
      /\ s \in SeqToSet(nums)
      /\ (Len(nums) >= 3 => Abs(pos[1] - pos[2]) <= 1)

\* ids of the rows search_exact_product accepts for (d, s)
ExactIds(d, s) ==
  {id \in ProductIds : SqlMatch(Product(id), d, s) /\ PostFilter(Product(id), d, s)}

\* match_score in thousandths: 0.8 + (matched_features / len(features)) * 0.2
MatchScore(p, features) ==
  IF features = {} THEN BaseScore
  ELSE BaseScore + (Cardinality(features \cap p.words) * FeatureBonus) \div Cardinality(features)

\* sorted(results, key=(match_score, stock), reverse=True), a stable sort
KeyGreater(a, b) == a.score > b.score \/ (a.score = b.score /\ a.stock > b.stock)

RECURSIVE InsertDesc(_, _)
InsertDesc(x, sorted) ==
  IF sorted = <<>> THEN <<x>>
  ELSE IF KeyGreater(x, Head(sorted)) THEN <<x>> \o sorted
       ELSE <<Head(sorted)>> \o InsertDesc(x, Tail(sorted))

RECURSIVE SortDesc(_)
SortDesc(q) == IF q = <<>> THEN <<>> ELSE InsertDesc(q[Len(q)], SortDesc(SubSeq(q, 1, Len(q) - 1)))

\* the rows of a query as a sequence in catalog (name) order
RECURSIVE RowsFrom(_, _)
RowsFrom(i, ids) ==
  IF i > Len(Catalog) THEN <<>>
  ELSE (IF i \in ids THEN <<i>> ELSE <<>>) \o RowsFrom(i + 1, ids)

Snapshot(id, st) == [id |-> id, stock |-> st[id]]

\* cur.fetchall(): the positions of the first RowLimit rows of names (a
\* catalog in name order) that the WHERE clause matches
RECURSIVE FetchedRows(_, _, _, _, _)
FetchedRows(names, i, d, s, room) ==
  IF i > Len(names) \/ room = 0 THEN <<>>
  ELSE IF SqlMatch(names[i], d, s)
       THEN <<i>> \o FetchedRows(names, i + 1, d, s, room - 1)
       ELSE FetchedRows(names, i + 1, d, s, room)

\* the fetched rows the post-filter accepts
AcceptedRows(names, d, s) ==
  SelectSeq(FetchedRows(names, 1, d, s, RowLimit), LAMBDA i : PostFilter(names[i], d, s))

search_exact_product(d, s, features, st) ==
  LET rows == AcceptedRows(Catalog, d, s)
      scored == [i \in 1..Len(rows) |->
                   [id |-> rows[i], stock |-> st[rows[i]],
                    score |-> MatchScore(Product(rows[i]), features)]]
      sorted == SortDesc(scored)
  IN  [i \in 1..Len(sorted) |-> [id |-> sorted[i].id, stock |-> sorted[i].stock]]

\* ids of the rows search_keyword_products finds for a query of class q
\* the cleaned keyword "" gives the pattern '%%', which every name matches
KeywordIds(q) == {id \in ProductIds : q = "" \/ q \in Product(id).tags}

search_keyword_products(q, st) ==
  LET rows == RowsFrom(1, KeywordIds(q))
  IN  [i \in 1..Len(rows) |-> Snapshot(rows[i], st)]

\* rows of get_stroke_options: malzeme_adi ILIKE %d%
StrokeRowIds(d) ==
  {id \in ProductIds : \E i \in 1..Len(Product(id).runs) : Contains(Product(id).runs[i].n, d)}

\* the stroke the first matching pattern of get_stroke_options extracts from
\* a name (None when no pattern matches).  The name is upper-cased before
\* the case-sensitive search, so a separator "x" never matches [*x×].
StrokeOfName(p, d) ==
  LET m1 == {i \in 1..Len(p.seps) : EndsWith(p.runs[i].n, d) /\ p.seps[i] = "*"}
      m2 == {i \in 1..Len(p.seps) : p.seps[i] = "*" /\ StartsWith(p.runs[i+1].n, d)}
      m3 == {i \in 1..Len(p.seps) : EndsWith(p.runs[i].n, d) /\ p.seps[i] = "/"}
      Min(S) == CHOOSE x \in S : \A y \in S : x <= y
  IN  IF m1 # {} THEN p.runs[Min(m1) + 1].n
      ELSE IF m2 # {} THEN p.runs[Min(m2)].n
      ELSE IF m3 # {} THEN p.runs[Min(m3) + 1].n
      ELSE None

RECURSIVE SumStock(_, _)
SumStock(ids, st) ==
  IF ids = {} THEN 0
  ELSE LET x == CHOOSE y \in ids : TRUE IN st[x] + SumStock(ids \ {x}, st)

\* get_stroke_options(d): stroke value -> total stock of the rows in stock
\* whose name yields that stroke
get_stroke_options(d, st) ==
  LET rows == {id \in StrokeRowIds(d) : st[id] > 0}
      strokeOf(id) == StrokeOfName(Product(id), d)
      keys == {strokeOf(id) : id \in rows} \ {None, d}
  IN  [k \in keys |-> SumStock({id \in rows : strokeOf(id) = k}, st)]

\* WHERE UPPER(malzeme_kodu) = UPPER(code)
CodeIds(code) == {id \in ProductIds : Product(id).code = code}


(***************************************************************************)
(* Inputs of a turn.                                                       *)
(*                                                                         *)
(* An utterance is kept as what the code computes from its text:           *)
(*   rd, rs, rq   diameter, stroke, quantity of parse_user_input_fallback  *)
(*   friendly     the text holds one of friendly_words                     *)
(*   term         the text holds bobin / valf / valve / silindir / cylinder*)
(*   meaningful   len(text) > 2 and the text is not a greeting word        *)
(*   needsE       needs_parameters of _enhance_ai_response_with_data       *)
(*   needsS       needs_parameters of _generate_structured_response        *)
(*   cancel       the text holds a cancellation word                       *)
(*   query        keyword class of the text for search_keyword_products    *)
(*   dbl          keyword class of "<text> <text>" (the combined query of  *)
(*                the spec_gathering branch, whose last history entry is   *)
(*                the current text)                                        *)
(*   code         first product code token of the text, "none" if none     *)
(*   isdigit      str.isdigit();  qtyword  holds adet / tane / parça / piece*)
(*   num          first \d+ of the text;  intval  int(text.strip())        *)
(*   affirm       text.lower() in [evet, yes, tamam, onayla, kaydet]       *)
(***************************************************************************)
Utt(rd, rs, rq, friendly, term, meaningful, needsE, needsS, cancel, query, dbl, code, isdigit, qtyword, num, intval, affirm) ==
  [rd |-> rd, rs |-> rs, rq |-> rq, friendly |-> friendly, term |-> term,
   meaningful |-> meaningful, needsE |-> needsE, needsS |-> needsS,
   cancel |-> cancel, query |-> query, dbl |-> dbl, code |-> code,
   isdigit |-> isdigit, qtyword |-> qtyword, num |-> num, intval |-> intval,
   affirm |-> affirm]

\* "50 çap"
UttDiameter == Utt(50, None, None, FALSE, FALSE, TRUE, FALSE, FALSE, FALSE,
                   "none", "none", "none", FALSE, FALSE, 50, None, FALSE)
\* "200 strok"
UttStroke == Utt(None, 200, None, FALSE, FALSE, TRUE, FALSE, FALSE, FALSE,
                 "none", "none", "none", FALSE, FALSE, 200, None, FALSE)
\* "silindir"
UttGeneric == Utt(None, None, None, FALSE, TRUE, TRUE, TRUE, TRUE, FALSE,
                  "none", "none", "none", FALSE, FALSE, None, None, FALSE)
\* "24 VDC valf bobini" (no catalog row matches)
UttCoil == Utt(None, None, None, FALSE, TRUE, TRUE, FALSE, FALSE, FALSE,
               "bobin", "none", "none", FALSE, FALSE, 24, None, FALSE)
\* "tamir takımı" (row 1 matches)
UttKit == Utt(None, None, None, FALSE, FALSE, TRUE, FALSE, FALSE, FALSE,
              "tamir", "none", "none", FALSE, FALSE, None, None, FALSE)
\* "ans 50" (rows 2 and 3 match)
UttBrand == Utt(None, None, None, FALSE, FALSE, TRUE, FALSE, FALSE, FALSE,
                "ans50", "none", "none", FALSE, FALSE, 50, None, FALSE)
\* "iptal"
UttCancel == Utt(None, None, None, FALSE, FALSE, TRUE, FALSE, FALSE, TRUE,
                 "none", "none", "none", FALSE, FALSE, None, None, FALSE)
\* "evet"
UttYes == Utt(None, None, None, FALSE, FALSE, FALSE, FALSE, FALSE, FALSE,
              "none", "none", "none", FALSE, FALSE, None, None, TRUE)
\* "hayır"
UttNo == Utt(None, None, None, FALSE, FALSE, FALSE, FALSE, FALSE, FALSE,
             "none", "none", "none", FALSE, FALSE, None, None, FALSE)
\* "17P1040 var mı"
UttCode == Utt(None, None, None, FALSE, FALSE, TRUE, FALSE, FALSE, FALSE,
               "none", "none", "17P1040", FALSE, FALSE, 17, None, FALSE)
\* "???": the keyword search cleans the text, and the text twice, to ""
UttDots == Utt(None, None, None, FALSE, FALSE, TRUE, FALSE, FALSE, FALSE,
               "", "", "none", FALSE, FALSE, None, None, FALSE)
\* "bir olsun", "yüz çap iki yüz strok": numbers spelled out, no digit
UttWords == Utt(None, None, None, FALSE, FALSE, TRUE, FALSE, FALSE, FALSE,
               "none", "none", "none", FALSE, FALSE, None, None, FALSE)
\* "1", "2", ... : a bare number
UttNumber(n) == Utt(None, None, None, FALSE, FALSE, FALSE, FALSE, FALSE, FALSE,
                    "none", "none", "none", TRUE, FALSE, n, n, FALSE)
\* "2 tane lazım": a quantity phrase
UttPieces(n) == Utt(None, None, n, FALSE, FALSE, TRUE, FALSE, FALSE, FALSE,
                    "none", "none", "none", FALSE, TRUE, n, None, FALSE)

\* what a customer answers in the ordering stages ("0" is a number too)
Replies ==
  {UttYes, UttNo} \cup {UttNumber(n) : n \in 0..MaxQty}
  \cup {UttPieces(n) : n \in 1..MaxQty}

\* the quantity the oracle extracts: null, a negative number (-2), zero or a
\* quantity
Quantities == {None, 0 - 2} \cup 0..MaxQty

(***************************************************************************)
(* What the oracle answers on a turn (AIResponse of extract_specifications)*)
(* failed: the call raised.  ai_response: suggested_response is non-empty. *)
(* malformed: the oracle's text was not JSON and the answer is the one     *)
(* extract_specifications builds in its except branch.                     *)
(***************************************************************************)
Oracle(failed, d, s, f, q, b, cq, ar, intent, conf, action) ==
  [failed |-> failed, diameter |-> d, stroke |-> s, features |-> f,
   quantity |-> q, brand_preference |-> b, corrected_query |-> cq,
   ai_response |-> ar, intent |-> intent, confidence |-> conf, action |-> action,
   malformed |-> FALSE]

OracleFailure ==
  Oracle(TRUE, None, None, {}, None, NoBrand, NoQuery, FALSE, "none", 0, "none")

\* except json.JSONDecodeError: extracted_specs = {}, a suggested reply that
\* asks for more detail, action clarify_intent
JsonDecodeFallback ==
  [Oracle(FALSE, None, None, {}, None, NoBrand, NoQuery, TRUE, "general_question",
          MalformedConfidence, "clarify_intent") EXCEPT !.malformed = TRUE]

Actions == {"search_direct", "request_params", "clarify_intent", "none"}

\* the two routes of generate_response: a suggested reply with confidence
\* above the threshold, and one below it
Confidences == {5, 9}

\* answers with plausible and implausible dimensions, for the
\* reconciliation of parse_user_input
OracleReconcile ==
  {Oracle(FALSE, d, s, {}, None, NoBrand, NoQuery, TRUE, "spec_query", 5, "clarify_intent") :
     d \in {None, 0, 100, 5000}, s \in {None, 0, 200, 3000}}

\* answers of a keyword dialogue: the oracle leaves the dimensions to the
\* regex pass and picks an action; some answers name a feature, a quantity
\* and a brand, one corrects the query to "tamir takımı"
OracleDialogue ==
  {Oracle(FALSE, None, None, {}, None, NoBrand, NoQuery, TRUE, "spec_query", c, "request_params") :
     c \in Confidences}
  \cup {Oracle(FALSE, None, None, {}, None, NoBrand, NoQuery, TRUE, "spec_query", 5, "clarify_intent"),
        Oracle(FALSE, None, None, {}, None, NoBrand, NoQuery, TRUE, "spec_query", 9, "search_direct"),
        Oracle(FALSE, None, None, {}, None, NoBrand, "tamir", TRUE, "spec_query", 9, "search_direct")}
  \cup {Oracle(FALSE, None, None, {"magnetic"}, 2, "ANS", NoQuery, TRUE, "spec_query", 5, a) :
          a \in {"request_params", "search_direct"}}
  \cup {OracleFailure}

\* answers of a dialogue by dimensions: the oracle leaves the dimensions to
\* the regex pass, or names a diameter (100), a stroke (300) or a feature
\* itself
OracleDimensions ==
  {Oracle(FALSE, None, None, {}, None, NoBrand, NoQuery, TRUE, "spec_query", c, "request_params") :
     c \in Confidences}
  \cup {Oracle(FALSE, 100, None, {}, None, NoBrand, NoQuery, TRUE, "spec_query", c, "request_params") :
          c \in Confidences}
  \cup {Oracle(FALSE, None, 300, {}, None, NoBrand, NoQuery, TRUE, "spec_query", 5, "request_params"),
        Oracle(FALSE, None, None, {"magnetic"}, None, NoBrand, NoQuery, TRUE, "spec_query", 5, "request_params")}

\* answers of an ordering dialogue: the dimensions of one product (100x200)
\* or of two (50x200), and a quantity for the pinned product
OracleOrdering ==
  {Oracle(FALSE, 100, 200, {}, None, NoBrand, NoQuery, TRUE, "spec_query", c, "request_params") :
     c \in Confidences}
  \cup {Oracle(FALSE, 50, 200, {}, None, NoBrand, NoQuery, TRUE, "spec_query", 9, "request_params")}
  \cup {Oracle(FALSE, None, None, {}, q, NoBrand, NoQuery, TRUE, "order_intent", c, "request_params") :
          q \in Quantities, c \in Confidences}

(***************************************************************************)
(* State: the ConversationContext of the session, and the record `last`    *)
(* of what the latest turn received and did.                               *)
(*   last.od, os, oq      diameter, stroke and quantity of the oracle's    *)
(*                        answer                                           *)
(*   last.rd, rs, rq      diameter, stroke and quantity of the regex pass  *)
(*   last.pd, ps, pq      the same of the result of parse_user_input       *)
(*   last.md, last.ms     diameter and stroke of extracted_specs right     *)
(*                        after update_specs                               *)
(*   last.clear           where extracted_specs was reset on the turn      *)
(*   last.kwHits/kwStage  result count of the last keyword search of the   *)
(*                        turn and conversation_stage when it ran          *)
(*   last.kwD, last.kwS   diameter and stroke of extracted_specs when that  *)
(*                        keyword search ran                               *)
(*   last.exHits/exD/exS  result count and arguments of the exact search   *)
(*   last.exStock         stock of the product when the exact search       *)
(*                        returned one product                             *)
(*   last.qty, last.live  quantity requested on the turn and the stock of  *)
(*                        the pinned product in the catalog on the turn    *)
(*   last.saves           number of save_order calls of the turn           *)
(*   last.retried         handle_quantity_input called itself again from   *)
(*                        its except branch                                *)
(*   last.sel             the number handle_product_selection read from    *)
(*                        the reply (None when the reply is not a number)  *)
(***************************************************************************)
\* db: whether the catalog database answers ("up") or every query on it
\* raises ("down")
\* conversation_systems: the dict of the bridge, clean phone number -> the
\* B2BConversationSystem it holds (0: no entry, k in Threads: the system whose
\* ConversationContext is contexts[k], FollowedContext: the system whose
\* ConversationContext the variables specs, stage, selected_products,
\* current_order and user_tone hold); contexts: the ConversationContext
\* objects of the other systems the bridge has built;
\* requests: the HTTP requests of the identity the server works on, each
\* with its position in process_whatsapp_message and its local variables
VARIABLES specs, stage, selected_products, current_order, user_tone, last, db, conversation_systems, contexts, requests

vars == <<specs, stage, selected_products, current_order, user_tone, last, db, conversation_systems, contexts, requests>>

\* the variables of the bridge under concurrent requests
bridge == <<conversation_systems, contexts, requests>>

EmptySpecs ==
  [diameter |-> None, stroke |-> None, features |-> {}, quantity |-> None,
   brand_preference |-> NoBrand]

\* current_order: None, the dict of a pinned catalog row, or the tuple
\* (product, quantity); inner tells whether the tuple holds a shortlist
\* entry ("entry") or the dict of a pinned catalog row ("row")
NoOrder == [form |-> "none", inner |-> "none", id |-> None, stock |-> None, quantity |-> None]
\* a pin that stores no order
ForgottenOrder(id, stock) == NoOrder

DictOrder(id, stock) ==
  [form |-> "dict", inner |-> "row", id |-> id, stock |-> stock, quantity |-> None]
TupleOrder(inner, id, stock, q) ==
  [form |-> "tuple", inner |-> inner, id |-> id, stock |-> stock, quantity |-> q]

\* selected_products = None
NoneList == <<[id |-> None, stock |-> None]>>

StockOf(ids) == [ids -> StockLevels]

Observation(handler) ==
  [handler |-> handler, action |-> "none", failed |-> FALSE, malformed |-> FALSE,
   od |-> None, os |-> None, rd |-> None, rs |-> None, pd |-> None, ps |-> None,
   oq |-> None, rq |-> None, pq |-> None, sel |-> None,
   md |-> None, ms |-> None,
   confidence |-> 0, clear |-> "no", kwHits |-> None, kwStage |-> "none",
   kwD |-> None, kwS |-> None,
   exHits |-> None, exD |-> None, exS |-> None, exStock |-> None,
   qty |-> None, live |-> None, saves |-> 0, saved |-> FALSE,
   affirm |-> FALSE, cancel |-> FALSE, raised |-> FALSE, retried |-> FALSE,
   reply |-> "none"]

Threads == 1..MaxRequests

\* the phone numbers of two customers as the messenger sends them, and what
\* get_conversation_system makes of them:
\* phone_number.replace('@c.us', '').replace('whatsapp:', '')
Customer == "905551110000"
Neighbour == "905552220000"
PhoneNumbers == {"905551110000@c.us", "whatsapp:905551110000", "905552220000@c.us"}
CleanPhones == {Customer, Neighbour}

clean_phone(phone_number) ==
  CASE phone_number = "905551110000@c.us" -> Customer
    [] phone_number = "whatsapp:905551110000" -> Customer
    [] phone_number = "905552220000@c.us" -> Neighbour

\* ConversationContext.__init__; user_query_history is kept as its length
FreshContext ==
  [user_query_history |-> 0, specs |-> EmptySpecs, stage |-> "initial",
   selected_products |-> <<>>, current_order |-> NoOrder, user_tone |-> "professional"]

\* a request that has not arrived yet
IdleRequest ==
  [pc |-> "idle", o |-> OracleFailure, u |-> UttWords, new |-> 0, system |-> 0,
   diameter |-> None, stroke |-> None, products |-> <<>>, options |-> FALSE]

Init ==
  /\ specs = EmptySpecs
  /\ stage = "initial"
  /\ selected_products = <<>>
  /\ current_order = NoOrder
  /\ user_tone = "professional"
  /\ last = Observation("init")
  /\ db = "up"
  /\ conversation_systems = [p \in CleanPhones |-> 0]
  /\ contexts = [i \in Threads |-> FreshContext]
  /\ requests = [t \in Threads |-> IdleRequest]

\* the end of a turn: the context as the handler leaves it
Finish(sp, stg, sel, ord, tone, obs) ==
  /\ specs' = sp
  /\ stage' = stg
  /\ selected_products' = sel
  /\ current_order' = ord
  /\ user_tone' = tone
  /\ last' = obs
  /\ db' = db
  /\ UNCHANGED bridge

\* the except branches of search_exact_product, search_keyword_products and
\* get_stroke_options: a query that raises answers with the empty result
Answer(rows) == IF db = "up" THEN rows ELSE <<>>

\* get_actual_stock: the stock of the product, 0.0 when the query raises
get_actual_stock(live) == IF db = "up" THEN live ELSE 0

(***************************************************************************)
(* parse_user_input and ConversationContext.update_specs                   *)
(***************************************************************************)
parse_user_input_fallback(u) ==
  [diameter |-> u.rd, stroke |-> u.rs, features |-> {}, quantity |-> u.rq,
   brand_preference |-> NoBrand, corrected_query |-> NoQuery,
   tone |-> IF u.friendly THEN "friendly" ELSE "professional",
   ai_response |-> FALSE, intent |-> "spec_query",
   confidence |-> FallbackConfidence, action |-> "none"]

\* a sanity check that lets every value pass
SanityCheckNoLimit(v, limit, regexValue) == v

\* the sanity check of one dimension: a value above the limit is replaced by
\* the regex value
SanityCheck(v, limit, regexValue) ==
  IF Truthy(v) /\ v > limit THEN regexValue ELSE v

\* the regex value fills in a dimension the oracle left empty
Backfill(v, regexValue) ==
  IF Truthy(regexValue) /\ ~Truthy(v) THEN regexValue ELSE v

parse_user_input(o, u) ==
  IF o.failed THEN parse_user_input_fallback(u)
  ELSE LET regex_fallback == parse_user_input_fallback(u)
       IN  [diameter |-> SanityCheck(Backfill(o.diameter, regex_fallback.diameter),
                                     DiameterLimit, regex_fallback.diameter),
            stroke |-> SanityCheck(Backfill(o.stroke, regex_fallback.stroke),
                                   StrokeLimit, regex_fallback.stroke),
            features |-> o.features, quantity |-> o.quantity,
            brand_preference |-> o.brand_preference,
            corrected_query |-> o.corrected_query,
            tone |-> regex_fallback.tone,
            ai_response |-> o.ai_response, intent |-> o.intent,
            confidence |-> o.confidence, action |-> o.action]

\* one key of update_specs: a value that is not None replaces the old one
Merge(old, new) == IF new # None THEN new ELSE old

\* an update_specs that replaces the feature list instead of extending it
update_specs_replacing(sp, parsed) ==
  [diameter |-> Merge(sp.diameter, parsed.diameter),
   stroke |-> Merge(sp.stroke, parsed.stroke),
   features |-> parsed.features,
   quantity |-> Merge(sp.quantity, parsed.quantity),
   brand_preference |-> IF parsed.brand_preference # NoBrand
                        THEN parsed.brand_preference ELSE sp.brand_preference]

update_specs(sp, parsed) ==
  [diameter |-> Merge(sp.diameter, parsed.diameter),
   stroke |-> Merge(sp.stroke, parsed.stroke),
   features |-> sp.features \cup parsed.features,
   quantity |-> Merge(sp.quantity, parsed.quantity),
   brand_preference |-> IF parsed.brand_preference # NoBrand
                        THEN parsed.brand_preference ELSE sp.brand_preference]


(***************************************************************************)
(* generate_response and the methods it calls.  Each operator below is the *)
(* rest of the turn from the point where the code calls the method: sp,    *)
(* stg and tone are extracted_specs, conversation_stage and user_tone as   *)
(* the turn has set them so far; selected_products and current_order have  *)
(* not been assigned on the turn before these points.                      *)
(***************************************************************************)

\* self.context.extracted_specs = {'diameter': None, 'stroke': None,
\* 'features': [], 'quantity': None, 'brand_preference': None}
\* a context clear that keeps the diameter
clear_context_keeping(sp) == [EmptySpecs EXCEPT !.diameter = sp.diameter]

clear_context(sp) == EmptySpecs

\* a single product pinned without looking at its stock
SingleProductAnyStock(product, sp, sel, tone, obs) ==
  Finish(sp, "order_creation", sel, DictOrder(product.id, product.stock), tone,
         [obs EXCEPT !.reply = "ask_quantity"])

\* one product found: out of stock -> general, else pin it and ask quantity
SingleProduct(product, sp, sel, tone, obs) ==
  IF product.stock <= 0
  THEN Finish(sp, "general", sel, current_order, tone, [obs EXCEPT !.reply = "out_of_stock"])
  ELSE Finish(sp, "order_creation", sel, DictOrder(product.id, product.stock), tone,
              [obs EXCEPT !.reply = "ask_quantity"])

\* the branch "diameter and stroke" of both response builders
ExactSearch(d, s, features, sp, stg, tone, obs) ==
  \E st \in StockOf(ExactIds(d, s)) :
    LET products == Answer(search_exact_product(d, s, features, st))
        o1 == [obs EXCEPT !.exHits = Len(products), !.exD = d, !.exS = s]
    IN  IF products # <<>>
        THEN IF Len(products) = 1
             THEN SingleProduct(products[1], sp, selected_products, tone,
                                [o1 EXCEPT !.exStock = products[1].stock])
             ELSE Finish(sp, "product_selection", products, current_order, tone,
                         [o1 EXCEPT !.reply = "product_link"])
        ELSE Finish(sp, stg, selected_products, current_order, tone,
                    [o1 EXCEPT !.reply = "not_found"])

\* _handle_product_code_search
handle_product_code_search(u, sp, stg, tone, obs) ==
  IF u.code = "none"
  THEN Finish(sp, stg, selected_products, current_order, tone,
              [obs EXCEPT !.reply = "no_code"])
  ELSE IF db # "up"
       THEN \* except Exception: the shortlist is dropped
            Finish(sp, "general", NoneList, current_order, tone,
                   [obs EXCEPT !.reply = "technical_problem"])
  ELSE IF CodeIds(u.code) = {}
       THEN Finish(sp, "general", NoneList, current_order, tone,
                   [obs EXCEPT !.reply = "not_found"])
       ELSE \E id \in CodeIds(u.code), stock \in StockLevels :
              SingleProduct([id |-> id, stock |-> stock], sp, selected_products, tone, obs)

\* _handle_order_creation: the quantity is checked against the stock stored
\* with the pinned product; live is the product's stock in the catalog on
\* this turn, which the method does not read
handle_order_creation(parsed, sp, stg, tone, obs) ==
  IF current_order.form = "none"
  THEN Finish(sp, stg, selected_products, current_order, tone,
              [obs EXCEPT !.reply = "no_order"])
  ELSE IF current_order.form = "tuple"
       THEN \* current_order['malzeme_adi'] on a tuple raises TypeError
            Finish(sp, stg, selected_products, current_order, tone,
                   [obs EXCEPT !.raised = TRUE])
       ELSE IF Truthy(parsed.quantity)
            THEN \E live \in StockLevels :
                   LET stock_amount == IF Truthy(current_order.stock)
                                       THEN current_order.stock ELSE 0
                       o1 == [obs EXCEPT !.qty = parsed.quantity, !.live = live]
                   IN  IF parsed.quantity > stock_amount
                       THEN Finish(sp, stg, selected_products, current_order, tone,
                                   [o1 EXCEPT !.reply = "stock_exceeded"])
                       ELSE Finish(sp, "order_confirmation", selected_products,
                                   [current_order EXCEPT !.quantity = parsed.quantity],
                                   tone, [o1 EXCEPT !.reply = "order_summary"])
            ELSE Finish(sp, stg, selected_products, current_order, tone,
                        [obs EXCEPT !.reply = "ask_quantity"])

\* _enhance_ai_response_with_data
enhance_ai_response_with_data(parsed, u, sp, stg, tone, obs) ==
  IF parsed.intent = "product_code_search"
  THEN handle_product_code_search(u, sp, stg, tone, obs)
  ELSE IF stg = "order_creation" /\ parsed.intent = "order_intent"
  THEN handle_order_creation(parsed, sp, stg, tone, obs)
  ELSE IF Truthy(parsed.diameter) /\ Truthy(parsed.stroke)
  THEN ExactSearch(parsed.diameter, parsed.stroke, parsed.features, sp, stg, tone, obs)
  ELSE IF Truthy(parsed.diameter) /\ ~Truthy(parsed.stroke)
  THEN Finish(sp, stg, selected_products, current_order, tone,
              [obs EXCEPT !.reply = "stroke_list"])
  ELSE IF ~Truthy(parsed.diameter) /\ ~Truthy(parsed.stroke)
          /\ u.meaningful /\ ~u.needsE
  THEN \* CLEAR OLD SPECS CONTEXT for new keyword search
       \E st \in StockOf(KeywordIds(u.query)) :
         LET products == Answer(search_keyword_products(u.query, st))
             o1 == [obs EXCEPT !.clear = "keyword", !.kwHits = Len(products),
                               !.kwStage = stg,
                               !.kwD = clear_context(sp).diameter,
                               !.kwS = clear_context(sp).stroke]
         IN  IF products # <<>>
             THEN Finish(clear_context(sp), "product_selection", products,
                         current_order, tone, [o1 EXCEPT !.reply = "product_link"])
             ELSE Finish(clear_context(sp), stg, selected_products, current_order,
                         tone, [o1 EXCEPT !.reply = "ai_response"])
  ELSE Finish(sp, stg, selected_products, current_order, tone,
              [obs EXCEPT !.reply = "ai_response"])

\* a keyword search of _generate_structured_response whose hits set the
\* shortlist, pin a single hit and open the selection for several
KeywordPin(products, sp, tone, obs) ==
  IF Len(products) = 1
  THEN SingleProduct(products[1], sp, products, tone, obs)
  ELSE Finish(sp, "product_selection", products, current_order, tone,
              [obs EXCEPT !.reply = "product_link"])

\* _generate_structured_response from "Response generation based on
\* conversation stage and available information" on
structured_by_specs(parsed, u, sp, stg, tone, obs) ==
  LET diameter == sp.diameter
      stroke == sp.stroke
      \* the end of the last branch: cancellation words, else the stage is reset
      tail(o1) ==
        IF u.cancel
        THEN Finish(sp, stg, selected_products, current_order, tone,
                    [o1 EXCEPT !.reply = "cancelled"])
        ELSE Finish(sp, "initial", selected_products, current_order, tone,
                    [o1 EXCEPT !.reply = "need_more_info"])
  IN
  IF Truthy(diameter) /\ ~Truthy(stroke)
  THEN \E st \in StockOf(StrokeRowIds(diameter)) :
         IF DOMAIN Answer(get_stroke_options(diameter, st)) # {}
         THEN Finish(sp, "spec_gathering", selected_products, current_order, tone,
                     [obs EXCEPT !.reply = "stroke_options"])
         ELSE Finish(sp, stg, selected_products, current_order, tone,
                     [obs EXCEPT !.reply = "diameter_out_of_stock"])
  ELSE IF Truthy(stroke) /\ ~Truthy(diameter)
  THEN Finish(sp, "spec_gathering", selected_products, current_order, tone,
              [obs EXCEPT !.reply = "ask_diameter"])
  ELSE IF Truthy(diameter) /\ Truthy(stroke)
  THEN ExactSearch(diameter, stroke, sp.features, sp, stg, tone, obs)
  ELSE IF u.meaningful
       THEN IF u.needsS
            THEN Finish(sp, "spec_gathering", selected_products, current_order, tone,
                        [obs EXCEPT !.reply = "ask_parameters"])
            ELSE LET search_query == IF parsed.corrected_query # NoQuery
                                     THEN parsed.corrected_query ELSE u.query
                 IN  \E st \in StockOf(KeywordIds(search_query)) :
                       LET products == Answer(search_keyword_products(search_query, st))
                           o1 == [obs EXCEPT !.kwHits = Len(products), !.kwStage = stg,
                                             !.kwD = sp.diameter, !.kwS = sp.stroke]
                       IN  IF products # <<>>
                           THEN KeywordPin(products, sp, tone, o1)
                           ELSE tail(o1)
       ELSE tail(obs)

\* _generate_structured_response
generate_structured_response(parsed, u, sp, stg, tone, obs) ==
  IF parsed.action = "search_direct"
  THEN LET search_query == IF parsed.corrected_query # NoQuery
                           THEN parsed.corrected_query ELSE u.query
       IN  \E st \in StockOf(KeywordIds(search_query)) :
             LET products == Answer(search_keyword_products(search_query, st))
                 o1 == [obs EXCEPT !.kwHits = Len(products), !.kwStage = stg,
                                   !.kwD = sp.diameter, !.kwS = sp.stroke]
             IN  IF products # <<>>
                 THEN Finish(sp, stg, products, current_order, tone,
                             [o1 EXCEPT !.reply = IF Len(products) = 1
                                                  THEN "product_details"
                                                  ELSE "product_link"])
                 ELSE Finish(sp, stg, selected_products, current_order, tone,
                             [o1 EXCEPT !.reply = "not_found"])
  ELSE IF stg = "spec_gathering"
       THEN \* combined_query is the current text twice
            \E st \in StockOf(KeywordIds(u.dbl)) :
              LET products == Answer(search_keyword_products(u.dbl, st))
                  o1 == [obs EXCEPT !.kwHits = Len(products), !.kwStage = stg,
                                    !.kwD = sp.diameter, !.kwS = sp.stroke]
              IN  IF products # <<>>
                  THEN KeywordPin(products, sp, tone, o1)
                  ELSE structured_by_specs(parsed, u, sp, stg, tone, o1)
       ELSE structured_by_specs(parsed, u, sp, stg, tone, obs)

\* generate_response
generate_response(o, u) ==
  LET parsed == parse_user_input(o, u)
      tone == parsed.tone
      sp == update_specs(specs, parsed)
      obs == [Observation("generate_response") EXCEPT
                !.action = parsed.action, !.failed = o.failed,
                !.malformed = o.malformed, !.oq = o.quantity, !.rq = u.rq,
                !.pq = parsed.quantity,
                !.confidence = parsed.confidence,
                !.od = o.diameter, !.os = o.stroke, !.rd = u.rd, !.rs = u.rs,
                !.pd = parsed.diameter, !.ps = parsed.stroke, !.cancel = u.cancel,
                !.md = sp.diameter, !.ms = sp.stroke]
      highConfidence == parsed.ai_response /\ parsed.confidence > ConfidenceThreshold
  IN
  IF parsed.action = "search_direct"
  THEN generate_structured_response(parsed, u, clear_context(sp), "initial", tone,
                                    [obs EXCEPT !.clear = "search_direct"])
  ELSE IF parsed.action = "request_params"
  THEN IF highConfidence
       THEN enhance_ai_response_with_data(parsed, u, sp, stage, tone, obs)
       ELSE generate_structured_response(parsed, u, sp, stage, tone, obs)
  ELSE IF parsed.action = "clarify_intent"
  THEN Finish(sp, stage, selected_products, current_order, tone,
              [obs EXCEPT !.reply = IF parsed.ai_response THEN "ai_response"
                                    ELSE "clarify"])
  ELSE IF parsed.action = "none" /\ u.term
  THEN generate_structured_response(parsed, u, clear_context(sp), "initial", tone,
                                    [obs EXCEPT !.clear = "fallback"])
  ELSE IF highConfidence
       THEN enhance_ai_response_with_data(parsed, u, sp, stage, tone, obs)
       ELSE generate_structured_response(parsed, u, sp, stage, tone, obs)


(***************************************************************************)
(* handle_quantity_input.  oq is extracted_quantity of the oracle, live    *)
(* the answer of get_actual_stock, saveOk whether save_order returns an id.*)
(***************************************************************************)
\* the quantity the method goes on with, None when it gives up
QuantityOf(oq, u) ==
  IF ~Truthy(oq) \/ oq <= 0
  THEN (IF u.num # None THEN u.num ELSE None)
  ELSE oq

\* from the stock check on, for the quantity q; onKeyError is the rest of the
\* turn when the reply for live = 0 raises KeyError('name') on a pinned row
quantity_checked(q, live, saveOk, obs, onKeyError) ==
  LET o1 == [obs EXCEPT !.qty = q, !.live = live]
      product == current_order
  IN  IF live = 0
      THEN IF product.inner = "row"
           THEN onKeyError
           ELSE Finish(specs, stage, selected_products, current_order, user_tone,
                       [o1 EXCEPT !.reply = "out_of_stock"])
      ELSE IF q > live
      THEN Finish(specs, stage, selected_products, current_order, user_tone,
                  [o1 EXCEPT !.reply = "stock_exceeded"])
      ELSE IF saveOk
      THEN Finish(specs, "order_completed", selected_products,
                  TupleOrder(product.inner, product.id, product.stock, q), user_tone,
                  [o1 EXCEPT !.saves = 1, !.saved = TRUE, !.reply = "order_received"])
      ELSE Finish(specs, stage, selected_products, current_order, user_tone,
                  [o1 EXCEPT !.saves = 1, !.reply = "save_failed"])

\* the except branch retries with the first number of the text; the retry
\* asks the oracle and the stock again (oq2, live2).  A retry that meets
\* live = 0 again retries in turn, so (oq2, live2) with live2 > 0 stands for
\* the first retry that sees stock, and live2 = 0 for the chain that ends
\* in RecursionError and the reply of the innermost except.
handle_quantity_input(u, oq, live, saveOk) ==
  LET obs == Observation("handle_quantity_input")
      giveUp(o1) == Finish(specs, stage, selected_products, current_order,
                           user_tone, [o1 EXCEPT !.reply = "ask_quantity"])
      q == QuantityOf(oq, u)
      retry ==
        IF u.num = None THEN giveUp(obs)
        ELSE IF u.num <= 0 THEN giveUp(obs)
        ELSE \E oq2 \in Quantities, live2 \in StockLevels :
               LET q2 == QuantityOf(oq2, UttNumber(u.num))
                   again == [obs EXCEPT !.retried = TRUE]
               IN  quantity_checked(q2, get_actual_stock(live2), saveOk, again,
                                    giveUp([again EXCEPT !.qty = q2,
                                                         !.live = get_actual_stock(live2)]))
  IN  IF current_order.form = "none"
      THEN Finish(specs, stage, selected_products, current_order, user_tone,
                  [obs EXCEPT !.reply = "no_order"])
      ELSE IF q = None
           THEN giveUp(obs)
           ELSE quantity_checked(q, get_actual_stock(live), saveOk, obs, retry)

(***************************************************************************)
(* handle_order_confirmation                                               *)
(***************************************************************************)
handle_order_confirmation(u, saveOk) ==
  LET obs == [Observation("handle_order_confirmation") EXCEPT !.affirm = u.affirm]
  IN  IF current_order.form = "none"
      THEN Finish(specs, stage, selected_products, current_order, user_tone,
                  [obs EXCEPT !.reply = "no_order"])
      ELSE IF u.affirm
      THEN IF current_order.form = "dict"
           THEN \* product, quantity = <dict with more than two keys>: ValueError
                Finish(specs, stage, selected_products, current_order, user_tone,
                       [obs EXCEPT !.raised = TRUE])
           ELSE IF saveOk
                THEN IF current_order.inner = "row"
                     THEN \* product['name'] raises KeyError after the save
                          Finish(specs, stage, selected_products, current_order,
                                 user_tone,
                                 [obs EXCEPT !.saves = 1, !.saved = TRUE, !.raised = TRUE])
                     ELSE Finish(specs, "initial", selected_products, NoOrder, user_tone,
                                 [obs EXCEPT !.saves = 1, !.saved = TRUE,
                                             !.reply = "order_id"])
                ELSE Finish(specs, stage, selected_products, current_order, user_tone,
                            [obs EXCEPT !.saves = 1, !.reply = "save_failed"])
      ELSE Finish(specs, "initial", selected_products, NoOrder, user_tone,
                  [obs EXCEPT !.cancel = TRUE, !.reply = "cancelled"])

(***************************************************************************)
(* handle_product_selection and the product page of the bridge             *)
(***************************************************************************)
\* a selection that takes the first entry of the shortlist whatever the number
handle_product_selection_first(u) ==
  LET obs == [Observation("handle_product_selection") EXCEPT !.sel = u.intval]
  IN  IF u.intval = None
      THEN Finish(specs, stage, selected_products, current_order, user_tone,
                  [obs EXCEPT !.reply = "ask_number"])
      ELSE IF selected_products = NoneList
      THEN \* len(None) raises TypeError
           Finish(specs, stage, selected_products, current_order, user_tone,
                  [obs EXCEPT !.raised = TRUE])
      ELSE IF 1 <= u.intval /\ u.intval <= Len(selected_products)
      THEN LET selected_product == selected_products[1]
           IN  Finish(specs, "order_creation", selected_products,
                      TupleOrder("entry", selected_product.id, selected_product.stock, None),
                      user_tone, [obs EXCEPT !.reply = "ask_quantity"])
      ELSE Finish(specs, stage, selected_products, current_order, user_tone,
                  [obs EXCEPT !.reply = "invalid_selection"])

handle_product_selection(u) ==
  LET obs == [Observation("handle_product_selection") EXCEPT !.sel = u.intval]
  IN  IF u.intval = None
      THEN Finish(specs, stage, selected_products, current_order, user_tone,
                  [obs EXCEPT !.reply = "ask_number"])
      ELSE IF selected_products = NoneList
      THEN \* len(None) raises TypeError
           Finish(specs, stage, selected_products, current_order, user_tone,
                  [obs EXCEPT !.raised = TRUE])
      ELSE IF 1 <= u.intval /\ u.intval <= Len(selected_products)
      THEN LET selected_product == selected_products[u.intval]
           IN  Finish(specs, "order_creation", selected_products,
                      TupleOrder("entry", selected_product.id, selected_product.stock, None),
                      user_tone, [obs EXCEPT !.reply = "ask_quantity"])
      ELSE Finish(specs, stage, selected_products, current_order, user_tone,
                  [obs EXCEPT !.reply = "invalid_selection"])

whatsapp_product_select(product_id) ==
  LET obs == Observation("whatsapp_product_select")
      found == IF selected_products = NoneList THEN {}
               ELSE {i \in 1..Len(selected_products) : selected_products[i].id = product_id}
  IN  IF found = {}
      THEN Finish(specs, stage, selected_products, current_order, user_tone,
                  [obs EXCEPT !.reply = "not_found"])
      ELSE LET selected_product == selected_products[CHOOSE i \in found : \A j \in found : i <= j]
           IN  IF selected_product.stock <= 0
               THEN Finish(specs, "general", selected_products, current_order, user_tone,
                           [obs EXCEPT !.reply = "out_of_stock"])
               ELSE Finish(specs, "order_creation", selected_products,
                           TupleOrder("entry", selected_product.id, selected_product.stock, None),
                           user_tone, [obs EXCEPT !.reply = "ask_quantity"])

(***************************************************************************)
(* The turns of a session, as the channel adapters dispatch them.          *)
(* whatsapp_bot.py and whatsapp_webjs_bot.py pass every message to         *)
(* generate_response, in every stage.                                      *)
(***************************************************************************)

\* the bridge: stage order_creation and a number or a quantity word
HandleQuantityInput ==
  /\ stage = "order_creation"
  /\ \E u \in Replies, oq \in Quantities, live \in StockLevels, saveOk \in BOOLEAN :
       /\ u.isdigit \/ u.qtyword
       /\ handle_quantity_input(u, oq, live, saveOk)

\* the bridge, the web chat and the console loop: stage order_confirmation
HandleOrderConfirmation ==
  /\ stage = "order_confirmation"
  /\ \E u \in Replies, saveOk \in BOOLEAN : handle_order_confirmation(u, saveOk)

\* the web chat and the console loop: stage product_selection and a number,
\* or a message classify_intent takes for an order
HandleProductSelection ==
  /\ stage = "product_selection"
  /\ \E u \in Replies, user_intent \in {"order_intent", "general_question"} :
       /\ u.isdigit \/ user_intent = "order_intent"
       /\ handle_product_selection(u)

\* GET /whatsapp/select/<phone_number>/<product_id>
WhatsappProductSelect ==
  \E product_id \in ProductIds : whatsapp_product_select(product_id)

(***************************************************************************)
(* Ordering dialogues: a product is found by its dimensions, a quantity is *)
(* given and the order is confirmed or cancelled.                          *)
(***************************************************************************)
OrderingResponse ==
  \E o \in OracleOrdering, u \in {UttWords} : generate_response(o, u)

NextOrder ==
  \/ OrderingResponse
  \/ HandleQuantityInput
  \/ HandleOrderConfirmation
  \/ HandleProductSelection
  \/ WhatsappProductSelect

SpecOrder == Init /\ [][NextOrder]_vars

(***************************************************************************)
(* Reconciliation of the oracle's dimensions with the regex pass.          *)
(***************************************************************************)
ReconcileResponse ==
  \E o \in OracleReconcile, u \in {UttDiameter, UttStroke, UttWords} :
     generate_response(o, u)

NextParse == ReconcileResponse

SpecParse == Init /\ [][NextParse]_vars

(***************************************************************************)
(* Dialogues by dimensions: diameter and stroke arrive turn by turn, the   *)
(* customer picks from the shortlist.                                      *)
(***************************************************************************)
DimensionResponse ==
  \E o \in OracleDimensions, u \in {UttDiameter, UttStroke} :
     generate_response(o, u)

NextExact ==
  \/ DimensionResponse
  \/ HandleProductSelection

SpecExact == Init /\ [][NextExact]_vars

(***************************************************************************)
(* Keyword dialogues: the customer names a diameter, a product family or a *)
(* keyword, or cancels; every message goes to generate_response.           *)
(***************************************************************************)
DialogueResponse ==
  \E o \in OracleDialogue,
     u \in {UttDiameter, UttCoil, UttKit, UttBrand, UttCancel} :
     generate_response(o, u)

Next == DialogueResponse

Spec == Init /\ [][Next]_vars

(***************************************************************************)
(* Degraded dialogues: the oracle call raises (network error, timeout), or *)
(* the oracle's text is not JSON, or the oracle answers.                   *)
(***************************************************************************)
OracleDegraded ==
  {OracleFailure, JsonDecodeFallback,
   Oracle(FALSE, None, None, {}, None, NoBrand, NoQuery, TRUE, "spec_query", 5, "request_params")}

DegradedResponse ==
  \E o \in OracleDegraded,
     u \in {UttDiameter, UttStroke, UttKit} \cup {UttPieces(n) : n \in 1..MaxQty} :
     generate_response(o, u)

NextDegraded == DegradedResponse

SpecDegraded == Init /\ [][NextDegraded]_vars

(***************************************************************************)
(* Dialogues during which the catalog database goes down and comes back:   *)
(* searches by dimensions, by keyword and by product code, and quantity    *)
(* replies for a pinned product.                                           *)
(***************************************************************************)
CatalogDown ==
  /\ db = "up"
  /\ db' = "down"
  /\ UNCHANGED <<specs, stage, selected_products, current_order, user_tone, last>>
  /\ UNCHANGED bridge

CatalogUp ==
  /\ db = "down"
  /\ db' = "up"
  /\ UNCHANGED <<specs, stage, selected_products, current_order, user_tone, last>>
  /\ UNCHANGED bridge

OracleOutage ==
  {Oracle(FALSE, None, None, {}, None, NoBrand, NoQuery, TRUE, "spec_query", c, "request_params") :
     c \in Confidences}
  \cup {Oracle(FALSE, None, None, {}, None, NoBrand, NoQuery, TRUE, "spec_query", 9, "search_direct"),
        Oracle(FALSE, None, None, {}, None, NoBrand, NoQuery, TRUE, "product_code_search", 9, "request_params")}

OutageResponse ==
  \E o \in OracleOutage, u \in {UttDiameter, UttStroke, UttKit, UttCode} :
     generate_response(o, u)

NextOutage ==
  \/ OutageResponse
  \/ HandleQuantityInput
  \/ CatalogDown
  \/ CatalogUp

SpecOutage == Init /\ [][NextOutage]_vars

(***************************************************************************)
(* Concurrent requests of one identity.  The bridge runs on the threaded   *)
(* Flask server (app.run) and takes no lock: a request can be suspended at *)
(* any statement and at every blocking call (the database connection of    *)
(* the constructor, the oracle, a catalog query) while another request of  *)
(* the same identity runs.  A request is followed statement by statement   *)
(* through get_conversation_system and generate_response.  The messages    *)
(* are "50 çap" and "200 strok" (request_params, low confidence) and       *)
(* "tamir takımı" (search_direct); the catalog holds every product with    *)
(* stock MaxStock.                                                         *)
(***************************************************************************)
Messages ==
  {[o |-> Oracle(FALSE, None, None, {}, None, NoBrand, NoQuery, TRUE, "spec_query", 5, "request_params"),
    u |-> UttDiameter],
   [o |-> Oracle(FALSE, None, None, {}, None, NoBrand, NoQuery, TRUE, "spec_query", 5, "request_params"),
    u |-> UttStroke],
   [o |-> Oracle(FALSE, None, None, {}, None, NoBrand, NoQuery, TRUE, "spec_query", 9, "search_direct"),
    u |-> UttKit]}

InStock == [id \in ProductIds |-> MaxStock]

\* one product found: self.context.current_order = {...} and the stage
PinSingle(c, product) ==
  IF product.stock <= 0
  THEN [c EXCEPT !.stage = "general"]
  ELSE [c EXCEPT !.current_order = DictOrder(product.id, product.stock),
                 !.stage = "order_creation"]

\* the result of a keyword search of _generate_structured_response
PinKeyword(c, products) ==
  IF Len(products) = 1
  THEN PinSingle([c EXCEPT !.selected_products = products], products[1])
  ELSE [c EXCEPT !.selected_products = products, !.stage = "product_selection"]

\* the result of search_exact_product in _generate_structured_response
PinExact(c, products) ==
  IF products = <<>> THEN c
  ELSE IF Len(products) = 1 THEN PinSingle(c, products[1])
  ELSE [c EXCEPT !.selected_products = products, !.stage = "product_selection"]

\* One statement of generate_response (confidence at most 0.7, or action
\* search_direct) on the context c by the request r: the context and the
\* request after it.
generate_response_step(c, r) ==
  LET parsed == parse_user_input(r.o, r.u)
      search_query == IF parsed.corrected_query # NoQuery
                      THEN parsed.corrected_query ELSE r.u.query
      at(p) == [r EXCEPT !.pc = p]
  IN
  CASE r.pc = "merge" ->
         \* add_query, user_tone and update_specs
         [c |-> [c EXCEPT !.user_query_history = @ + 1,
                          !.user_tone = parsed.tone,
                          !.specs = update_specs(c.specs, parsed)],
          r |-> at(IF parsed.action = "search_direct" THEN "clear" ELSE "gathering")]
    [] r.pc = "clear" ->
         [c |-> [c EXCEPT !.specs = clear_context(c.specs)], r |-> at("reset")]
    [] r.pc = "reset" ->
         [c |-> [c EXCEPT !.stage = "initial"], r |-> at("keyword")]
    [] r.pc = "keyword" ->
         [c |-> c,
          r |-> [r EXCEPT !.pc = "shortlist",
                          !.products = search_keyword_products(search_query, InStock)]]
    [] r.pc = "shortlist" ->
         [c |-> IF r.products # <<>>
                THEN [c EXCEPT !.selected_products = r.products] ELSE c,
          r |-> at("done")]
    [] r.pc = "gathering" ->
         \* if self.context.conversation_stage == 'spec_gathering'
         IF c.stage = "spec_gathering"
         THEN [c |-> c,
               r |-> [r EXCEPT !.pc = "gathered",
                               !.products = search_keyword_products(r.u.dbl, InStock)]]
         ELSE [c |-> c, r |-> at("read")]
    [] r.pc = "gathered" ->
         IF r.products # <<>>
         THEN [c |-> PinKeyword(c, r.products), r |-> at("done")]
         ELSE [c |-> c, r |-> at("read")]
    [] r.pc = "read" ->
         \* diameter = self.context.extracted_specs['diameter'], stroke = ...
         LET diameter == c.specs.diameter
             stroke == c.specs.stroke
         IN  [c |-> c,
              r |-> [r EXCEPT !.diameter = diameter, !.stroke = stroke,
                              !.pc = IF Truthy(diameter) /\ ~Truthy(stroke) THEN "strokes"
                                     ELSE IF Truthy(stroke) /\ ~Truthy(diameter) THEN "diameter"
                                     ELSE IF Truthy(diameter) /\ Truthy(stroke) THEN "exact"
                                     ELSE "words"]]
    [] r.pc = "strokes" ->
         [c |-> c,
          r |-> [r EXCEPT !.pc = "options",
                          !.options = (DOMAIN get_stroke_options(r.diameter, InStock) # {})]]
    [] r.pc = "options" ->
         [c |-> IF r.options THEN [c EXCEPT !.stage = "spec_gathering"] ELSE c,
          r |-> at("done")]
    [] r.pc = "diameter" ->
         [c |-> [c EXCEPT !.stage = "spec_gathering"], r |-> at("done")]
    [] r.pc = "exact" ->
         [c |-> c,
          r |-> [r EXCEPT !.pc = "matched",
                          !.products = search_exact_product(r.diameter, r.stroke,
                                                            c.specs.features, InStock)]]
    [] r.pc = "matched" ->
         [c |-> PinExact(c, r.products), r |-> at("done")]
    [] r.pc = "words" ->
         IF r.u.meaningful /\ r.u.needsS
         THEN [c |-> [c EXCEPT !.stage = "spec_gathering"], r |-> at("done")]
         ELSE IF r.u.meaningful
         THEN [c |-> c,
               r |-> [r EXCEPT !.pc = "searched",
                               !.products = search_keyword_products(search_query, InStock)]]
         ELSE [c |-> c, r |-> at("last")]
    [] r.pc = "searched" ->
         IF r.products # <<>>
         THEN [c |-> PinKeyword(c, r.products), r |-> at("done")]
         ELSE [c |-> c, r |-> at("last")]
    [] r.pc = "last" ->
         \* cancellation words, else self.context.conversation_stage = 'initial'
         [c |-> IF r.u.cancel THEN c ELSE [c EXCEPT !.stage = "initial"],
          r |-> at("done")]

\* the positions of a request inside generate_response
TurnPositions ==
  {"merge", "clear", "reset", "keyword", "shortlist", "gathering", "gathered",
   "read", "strokes", "options", "diameter", "exact", "matched", "words",
   "searched", "last"}

\* the part of the state that belongs to the single-request dialogues
session == <<specs, stage, selected_products, current_order, user_tone, last, db>>

\* a message arrives: POST /whatsapp/process
Receive(t) ==
  /\ requests[t].pc = "idle"
  /\ \E m \in Messages :
       requests' = [requests EXCEPT ![t] = [@ EXCEPT !.pc = "lookup", !.o = m.o, !.u = m.u]]
  /\ UNCHANGED <<conversation_systems, contexts>>
  /\ UNCHANGED session

\* get_conversation_system: if clean_phone not in conversation_systems
Lookup(t) ==
  /\ requests[t].pc = "lookup"
  /\ requests' = [requests EXCEPT ![t].pc = IF conversation_systems[Customer] = 0
                                           THEN "construct" ELSE "return"]
  /\ UNCHANGED <<conversation_systems, contexts>>
  /\ UNCHANGED session

\* B2BConversationSystem(db_connection, clean_phone): a new system with a
\* fresh context (the constructor connects to the database)
Construct(t) ==
  /\ requests[t].pc = "construct"
  /\ contexts' = [contexts EXCEPT ![t] = FreshContext]
  /\ requests' = [requests EXCEPT ![t] = [@ EXCEPT !.pc = "store", !.new = t]]
  /\ UNCHANGED conversation_systems
  /\ UNCHANGED session

\* conversation_systems[clean_phone] = <the new system>
Store(t) ==
  /\ requests[t].pc = "store"
  /\ conversation_systems' = [conversation_systems EXCEPT ![Customer] = requests[t].new]
  /\ requests' = [requests EXCEPT ![t].pc = "return"]
  /\ UNCHANGED contexts
  /\ UNCHANGED session

\* return conversation_systems[clean_phone]
Return(t) ==
  /\ requests[t].pc = "return"
  /\ requests' = [requests EXCEPT ![t] = [@ EXCEPT !.pc = "dispatch",
                                                   !.system = conversation_systems[Customer]]]
  /\ UNCHANGED <<conversation_systems, contexts>>
  /\ UNCHANGED session

\* process_whatsapp_message reads the stage; the messages here hold no
\* number and no quantity word, so outside order_confirmation the request
\* goes to generate_response, which asks the oracle first
Dispatch(t) ==
  /\ requests[t].pc = "dispatch"
  /\ contexts[requests[t].system].stage # "order_confirmation"
  /\ requests' = [requests EXCEPT ![t].pc = "merge"]
  /\ UNCHANGED <<conversation_systems, contexts>>
  /\ UNCHANGED session

\* the request executes its next statement of generate_response
Statement(t) ==
  /\ requests[t].pc \in TurnPositions
  /\ LET after == generate_response_step(contexts[requests[t].system], requests[t])
     IN  /\ contexts' = [contexts EXCEPT ![requests[t].system] = after.c]
         /\ requests' = [requests EXCEPT ![t] = after.r]
  /\ UNCHANGED conversation_systems
  /\ UNCHANGED session

NextConcurrent ==
  \/ \E t \in Threads : Receive(t)
  \/ \E t \in Threads : Lookup(t)
  \/ \E t \in Threads : Construct(t)
  \/ \E t \in Threads : Store(t)
  \/ \E t \in Threads : Return(t)
  \/ \E t \in Threads : Dispatch(t)
  \/ \E t \in Threads : Statement(t)

SpecConcurrent == Init /\ [][NextConcurrent]_vars

(***************************************************************************)
(* Properties.  A property about one turn is stated over the step of that  *)
(* turn: unprimed variables are the session before the turn, primed ones   *)
(* the session after it, and last' is what the turn did.                   *)
(***************************************************************************)
IsResponse(obs) == obs.handler = "generate_response"

\* the value a dimension has after the merge, as the statement gives it:
\* the oracle's value within the limit, else the regex value or null
AsStated(oracleValue, limit, regexValue) ==
  IF oracleValue <= limit THEN oracleValue ELSE regexValue

\* C1, as stated: if the oracle returns a non-null diameter, the session
\* specification's diameter after the merge is the oracle's value when that
\* is at most 1000 and otherwise the regex pass's diameter, or null if the
\* regex pass found none; the same for stroke with 2000.
ReconciledAsStated ==
  /\ (IsResponse(last) /\ last.od # None)
       => last.md = AsStated(last.od, DiameterLimit, last.rd)
  /\ (IsResponse(last) /\ last.os # None)
       => last.ms = AsStated(last.os, StrokeLimit, last.rs)

\* C1, amended: if the oracle returns a diameter that is neither null nor
\* zero, the session specification's diameter after the merge is the
\* oracle's value when that is at most 1000; otherwise it is the regex
\* pass's diameter, or, if the regex pass found none, the diameter the
\* session held before the turn.  The same for stroke with 2000.
ReconciledDimensions ==
  [][ /\ (IsResponse(last') /\ Truthy(last'.od))
           => last'.md = IF last'.od <= DiameterLimit THEN last'.od
                         ELSE IF last'.rd # None THEN last'.rd
                         ELSE specs.diameter
      /\ (IsResponse(last') /\ Truthy(last'.os))
           => last'.ms = IF last'.os <= StrokeLimit THEN last'.os
                         ELSE IF last'.rs # None THEN last'.rs
                         ELSE specs.stroke ]_vars

\* an implausible oracle diameter on a text without a diameter, in a session
\* that already holds one: the session keeps it
ReconciledDimensionsWitness ==
  /\ IsResponse(last)
  /\ last.od > DiameterLimit
  /\ last.rd = None
  /\ last.md = 100
  /\ specs.diameter = 100

\* C2: quantity capture never moves a session from order_creation to
\* order_confirmation, nor to a persisted order, when the requested quantity
\* exceeds the pinned product's stock in the catalog at the time of the turn.
QuantityWithinLiveStock ==
  [][ (/\ stage = "order_creation"
       /\ last'.qty # None
       /\ last'.live # None
       /\ last'.qty > last'.live)
      => (stage' # "order_confirmation" /\ ~last'.saved) ]_vars

\* C3: whenever a quantity reply is accepted for the pinned product in
\* order_creation, the session's next stage is order_confirmation.
AcceptedQuantityAwaitsConfirmation ==
  [][ (/\ stage = "order_creation"
       /\ last'.reply \in {"order_received", "order_summary"})
      => stage' = "order_confirmation" ]_vars

\* C4: save_order is called exactly once on the turn that affirmatively
\* confirms an order, and on no other turn.
SavedOnlyOnConfirmation ==
  last.saves = IF /\ last.handler = "handle_order_confirmation"
                  /\ last.affirm
                  /\ last.reply # "no_order"
               THEN 1 ELSE 0

\* C5: in order_confirmation an affirmative reply persists the pending
\* order, reports an order identifier and leaves the session in the initial
\* stage with no pending order; any other reply cancels without persisting
\* and leaves the session in the initial stage with no pending order.  (A
\* turn on which save_order itself fails is left aside.)
ConfirmationOutcome ==
  [][ (/\ stage = "order_confirmation"
       /\ last'.handler = "handle_order_confirmation"
       /\ ~(last'.saves = 1 /\ ~last'.saved))
      => /\ stage' = "initial"
         /\ current_order' = NoOrder
         /\ last'.affirm => (last'.saved /\ last'.reply = "order_id")
         /\ ~last'.affirm => last'.saves = 0 ]_vars

\* C6, as stated: the feature set after a turn is a superset of the feature
\* set before it, except on a search_direct turn or a cancellation.
FeaturesAccumulateAsStated ==
  [][ \/ specs.features \subseteq specs'.features
      \/ last'.action = "search_direct"
      \/ last'.cancel ]_vars

\* C6, amended: the feature set after a turn is a superset of the feature
\* set before it, except on a turn that resets the specification: a
\* search_direct turn, a turn without a classified action whose text names a
\* product family (bobin, valf, valve, silindir, cylinder), or a turn
\* answered from the oracle's reply whose text carries no dimension and
\* starts a keyword search.
FeaturesAccumulate ==
  [][ \/ specs.features \subseteq specs'.features
      \/ last'.clear \in {"search_direct", "fallback", "keyword"} ]_vars

\* a turn whose oracle names no feature, in a session that holds one
FeaturesAccumulateWitness ==
  /\ IsResponse(last)
  /\ last.confidence = 9
  /\ last.clear = "no"
  /\ specs.features = {"magnetic"}

\* C7: after every search_direct turn the session specification has
\* diameter, stroke, quantity and brand null and features empty, whatever it
\* held before and whatever the same utterance supplied, and the stage was
\* initial when the keyword search ran.
SearchDirectClearsContext ==
  (IsResponse(last) /\ last.action = "search_direct")
    => /\ specs = EmptySpecs
       /\ last.kwHits # None
       /\ last.kwStage = "initial"

\* a search_direct turn on a text with a diameter
SearchDirectClearsContextWitness ==
  /\ IsResponse(last)
  /\ last.action = "search_direct"
  /\ last.pd = 50
  /\ last.kwHits = 0
  /\ specs = EmptySpecs

\* C8: a search_direct turn ends with stage order_creation when the keyword
\* search returns a single hit, with stage product_selection when it returns
\* several, and outside both stages when it returns none.
SearchDirectOutcome ==
  (IsResponse(last) /\ last.action = "search_direct")
    => \/ last.kwHits = 1 /\ stage = "order_creation"
       \/ last.kwHits > 1 /\ stage = "product_selection"
       \/ last.kwHits = 0 /\ stage \notin {"order_creation", "product_selection"}

Ids(products) == {products[i].id : i \in 1..Len(products)}

\* the end of a turn whose exact search found several products or none
ShortlistOrStay ==
  /\ last'.exHits > 1 =>
       /\ stage' = "product_selection"
       /\ Len(selected_products') = last'.exHits
       /\ Ids(selected_products') = ExactIds(last'.exD, last'.exS)
  /\ last'.exHits = 0 => stage' = stage

\* the product of the exact search is the pending order
Pinned ==
  /\ stage' = "order_creation"
  /\ current_order'.form = "dict"
  /\ {current_order'.id} = ExactIds(last'.exD, last'.exS)
  /\ current_order'.stock = last'.exStock

\* C9, as stated: a turn that runs the exact search ends with stage
\* order_creation and the pending order set to the product when there is
\* exactly one result, with stage product_selection and the shortlist set to
\* the results when there are several, and with the stage unchanged when
\* there is none.
ExactMatchOutcomeAsStated ==
  [][ (IsResponse(last') /\ last'.exHits # None)
      => /\ last'.exHits = 1 => Pinned
         /\ ShortlistOrStay ]_vars

\* C9, amended: exactly one result with stock above zero ends with stage
\* order_creation and the pending order set to the product; exactly one
\* result without stock ends with stage general and the pending order as it
\* was; several results and none as stated.
ExactMatchOutcome ==
  [][ (IsResponse(last') /\ last'.exHits # None)
      => /\ (last'.exHits = 1 /\ last'.exStock > 0) => Pinned
         /\ (last'.exHits = 1 /\ last'.exStock <= 0)
              => (stage' = "general" /\ current_order' = current_order)
         /\ ShortlistOrStay ]_vars

\* the exact search found one product, which is out of stock
ExactMatchOutcomeWitness ==
  /\ IsResponse(last)
  /\ last.exHits = 1
  /\ last.exStock = 0
  /\ stage = "general"

\* the turn completes the pair: the session holds one dimension only and the
\* turn supplies only the other
CompletesPair ==
  \/ /\ Truthy(specs.diameter) /\ specs.stroke = None
     /\ last'.pd = None /\ Truthy(last'.ps)
  \/ /\ Truthy(specs.stroke) /\ specs.diameter = None
     /\ last'.ps = None /\ Truthy(last'.pd)

\* C10: if the session holds only the diameter and a request_params turn
\* supplies only the stroke (or the reverse), the turn runs the exact search
\* on the accumulated pair and the stage is product_selection when several
\* products match, whatever the oracle's confidence.
AccumulatedPairSearched ==
  [][ (IsResponse(last') /\ last'.action = "request_params" /\ CompletesPair)
      => /\ last'.exHits # None
         /\ last'.exD = last'.md
         /\ last'.exS = last'.ms
         /\ last'.exHits > 1 => stage' = "product_selection" ]_vars

\* exactly one of the two dimensions is set
OneDimension(d, s) == Truthy(d) # Truthy(s)

\* C11: after a request_params turn in which exactly one of diameter and
\* stroke is set in the session specification, the stage is spec_gathering
\* and the reply is the stock-based inquiry for the missing dimension.
PartialSpecificationInquiry ==
  (/\ IsResponse(last)
   /\ last.action = "request_params"
   /\ OneDimension(last.md, last.ms))
    => /\ stage = "spec_gathering"
       /\ last.reply \in {"stroke_options", "ask_diameter"}

\* C12: a clarify_intent turn leaves the session specification and the stage
\* exactly as they were before the turn, and replies with the oracle's
\* suggested reply or with the generic clarifying question.
ClarifyLeavesSession ==
  [][ (IsResponse(last') /\ last'.action = "clarify_intent")
      => /\ specs' = specs
         /\ stage' = stage
         /\ last'.reply \in {"ai_response", "clarify"} ]_vars

\* the dimension the session holds was asserted by the oracle on the turn
\* before: the oracle's value passed the sanity gate and is the held value
OracleAsserted(oracleValue, limit, held) ==
  /\ IsResponse(last)
  /\ Truthy(oracleValue)
  /\ oracleValue <= limit
  /\ held = oracleValue

\* the turn replaces the held value by one only the regex pass produced
ReplacedByRegex(oracleValue, regexValue, held, heldAfter) ==
  /\ IsResponse(last')
  /\ oracleValue = None
  /\ regexValue # None
  /\ heldAfter = regexValue
  /\ heldAfter # held

\* C13: once the session specification holds a diameter or stroke asserted
\* by the oracle, no later turn on which the oracle returns null for that
\* field replaces it with the value of the regex pass.
OracleValueKept ==
  [][ /\ OracleAsserted(last.od, DiameterLimit, specs.diameter)
           => ~ReplacedByRegex(last'.od, last'.rd, specs.diameter, specs'.diameter)
      /\ OracleAsserted(last.os, StrokeLimit, specs.stroke)
           => ~ReplacedByRegex(last'.os, last'.rs, specs.stroke, specs'.stroke) ]_vars

\* C14: for every failure of the oracle call (the call raises, or the
\* oracle's text is not JSON) parse_user_input returns the diameter, stroke
\* and quantity of the regex pass alone, with confidence 0.6.
DegradesToRegex ==
  (IsResponse(last) /\ (last.failed \/ last.malformed))
    => /\ last.pd = last.rd
       /\ last.ps = last.rs
       /\ last.pq = last.rq
       /\ last.confidence = FallbackConfidence

\* C15: no quantity capture accepts a quantity that is zero or negative:
\* a turn whose quantity is <= 0 produces no order summary, does not enter
\* order_confirmation and persists no order.
QuantityPositive ==
  [][ (last'.qty # None /\ last'.qty <= 0)
      => /\ last'.reply \notin {"order_summary", "order_received"}
         /\ ~(stage # "order_confirmation" /\ stage' = "order_confirmation")
         /\ last'.saves = 0 ]_vars

IsQuantityInput(obs) == obs.handler = "handle_quantity_input"

\* C16: when the requested quantity exceeds the product's live stock,
\* handle_quantity_input persists nothing, leaves the stage and the pending
\* order unchanged and states the available quantity; a following reply with
\* a quantity within stock is then accepted.
ExceededQuantityRejected ==
  [][ /\ (/\ IsQuantityInput(last')
          /\ last'.qty # None
          /\ last'.live # None
          /\ last'.qty > last'.live)
         => /\ last'.saves = 0
            /\ stage' = stage
            /\ current_order' = current_order
            /\ last'.reply \in {"stock_exceeded", "out_of_stock"}
      /\ (/\ IsQuantityInput(last)
          /\ last.reply = "stock_exceeded"
          /\ IsQuantityInput(last')
          /\ last'.qty # None
          /\ last'.live # None
          /\ 0 < last'.qty
          /\ last'.qty <= last'.live
          /\ ~(last'.saves = 1 /\ ~last'.saved))
         => last'.reply = "order_received" ]_vars

IsProductSelection(obs) == obs.handler = "handle_product_selection"

QueryRan(obs) ==
  \/ obs.exHits # None
  \/ obs.kwHits # None
  \/ obs.live # None
  \/ obs.reply \in {"stroke_options", "diameter_out_of_stock", "technical_problem"}

\* C18: when a catalog query fails during a turn, the stage after the turn
\* is the stage before it, and the shortlist and the pending order are not
\* altered.
FailedQueryKeepsSession ==
  [][ (db = "down" /\ QueryRan(last'))
      => /\ stage' = stage
         /\ selected_products' = selected_products
         /\ current_order' = current_order ]_vars


(***************************************************************************)
(* One message processed alone: generate_response runs from its first      *)
(* statement to its return with no other request in between.               *)
(***************************************************************************)
RECURSIVE RunToReturn(_, _)
RunToReturn(c, r) ==
  IF r.pc = "done" THEN c
  ELSE LET after == generate_response_step(c, r) IN RunToReturn(after.c, after.r)

\* a turn that leaves in the specification the diameter of the oracle's own
\* answer instead of the diameter of the reconciled parse
ProcessedRaw(c, m) ==
  LET after == RunToReturn(c, [IdleRequest EXCEPT !.pc = "merge", !.o = m.o, !.u = m.u])
  IN  [after EXCEPT !.specs.diameter = Merge(c.specs.diameter, m.o.diameter)]

\* the context after the message m is processed alone on the context c
Processed(c, m) == RunToReturn(c, [IdleRequest EXCEPT !.pc = "merge", !.o = m.o, !.u = m.u])

\* the message a request carries
MessageOf(t) == [o |-> requests[t].o, u |-> requests[t].u]

\* the contexts two messages can leave when processed one after the other
SerialOutcomes(m1, m2) ==
  {Processed(Processed(FreshContext, m1), m2), Processed(Processed(FreshContext, m2), m1)}

\* C19: when two concurrent messages of one identity have both been
\* processed by the same conversation system, the session context equals
\* the result of processing them one after the other in some order.
SerializedTurns ==
  \A t1, t2 \in Threads :
    (/\ t1 # t2
     /\ requests[t1].pc = "done"
     /\ requests[t2].pc = "done"
     /\ requests[t1].system = requests[t2].system)
    => contexts[requests[t1].system] \in SerialOutcomes(MessageOf(t1), MessageOf(t2))

\* C20: all requests of the identity that have obtained a conversation
\* system from get_conversation_system hold one and the same system.
OneConversationSystem ==
  \A t1, t2 \in Threads :
    (requests[t1].system # 0 /\ requests[t2].system # 0)
    => requests[t1].system = requests[t2].system


(***************************************************************************)
(* Two identities on one bridge.  The customer's session is the one the    *)
(* variables specs, stage, selected_products, current_order and user_tone  *)
(* follow, with every handler; the neighbour's context is an object of     *)
(* contexts, and the neighbour writes messages that generate_response      *)
(* answers.  Each message first goes through get_conversation_system.      *)
(***************************************************************************)
\* turns the neighbour takes at most
MaxHistory == 2

\* the reference of the system whose context the session variables hold
FollowedContext == MaxRequests + 1

\* a context every system shares, as a class attribute would be
SharedConversationContext(systems) == FollowedContext

\* self.context = ConversationContext(): an object no other system holds
NewConversationContext(systems) ==
  CHOOSE k \in Threads : \A p \in CleanPhones : systems[p] # k

\* the session variables as a context object
FollowedRecord ==
  [specs |-> specs, stage |-> stage, selected_products |-> selected_products,
   current_order |-> current_order, user_tone |-> user_tone]

\* system.context of the system the dict holds for the clean phone number p
ContextOf(p) ==
  IF conversation_systems[p] = FollowedContext THEN FollowedRecord
  ELSE contexts[conversation_systems[p]]

\* the first message of the customer: get_conversation_system builds the
\* system; its context is the fresh one the session variables start from
CustomerArrives ==
  /\ \E phone_number \in PhoneNumbers :
       /\ clean_phone(phone_number) = Customer
       /\ conversation_systems[clean_phone(phone_number)] = 0
       /\ conversation_systems' =
            [conversation_systems EXCEPT ![clean_phone(phone_number)] = FollowedContext]
  /\ UNCHANGED <<session, contexts, requests>>

\* the first message of the neighbour: get_conversation_system builds the
\* system with its own context
NeighbourArrives ==
  /\ \E phone_number \in PhoneNumbers :
       /\ clean_phone(phone_number) = Neighbour
       /\ conversation_systems[clean_phone(phone_number)] = 0
       /\ LET k == NewConversationContext(conversation_systems)
          IN  /\ conversation_systems' =
                   [conversation_systems EXCEPT ![clean_phone(phone_number)] = k]
              /\ contexts' = IF k \in Threads THEN [contexts EXCEPT ![k] = FreshContext]
                             ELSE contexts
  /\ UNCHANGED <<session, requests>>

\* what the customer writes: the dimensions of one product or of two, a
\* quantity for the pinned product
OracleCustomer ==
  {Oracle(FALSE, 100, 200, {}, None, NoBrand, NoQuery, TRUE, "spec_query", 9, "request_params"),
   Oracle(FALSE, 50, 200, {}, None, NoBrand, NoQuery, TRUE, "spec_query", 9, "request_params"),
   Oracle(FALSE, None, None, {}, 1, NoBrand, NoQuery, TRUE, "order_intent", 9, "request_params")}

\* a turn of the customer: the dispatch of the adapters on the system the
\* dict holds for the customer; the customer answers "1" or "2" to a
\* shortlist, "1" to the quantity question, "evet" or "hayır" to the summary
CustomerTurn ==
  /\ conversation_systems[Customer] = FollowedContext
  /\ \/ \E o \in OracleCustomer : generate_response(o, UttWords)
     \/ /\ stage = "product_selection"
        /\ \E n \in 1..2 : handle_product_selection(UttNumber(n))
     \/ /\ stage = "order_creation"
        /\ \E live \in StockLevels : handle_quantity_input(UttNumber(1), None, live, TRUE)
     \/ /\ stage = "order_confirmation"
        /\ \E u \in {UttYes, UttNo} : handle_order_confirmation(u, TRUE)

\* a turn of the neighbour: generate_response on the context of the system
\* the dict holds for the neighbour
NeighbourTurn ==
  /\ conversation_systems[Neighbour] \in Threads
  /\ contexts[conversation_systems[Neighbour]].user_query_history < MaxHistory
  /\ \E m \in Messages :
       contexts' = [contexts EXCEPT ![conversation_systems[Neighbour]] = Processed(@, m)]
  /\ UNCHANGED <<session, conversation_systems, requests>>

NextIdentities ==
  \/ CustomerArrives
  \/ NeighbourArrives
  \/ CustomerTurn
  \/ NeighbourTurn

SpecIdentities == Init /\ [][NextIdentities]_vars

HasSystem(p) == conversation_systems[p] # 0

\* a step in which a handler ran on the customer's system: it recorded its
\* turn in last or wrote the session
CustomerStep == last' # last \/ FollowedRecord' # FollowedRecord

\* a step in which generate_response ran on the neighbour's system
NeighbourStep ==
  /\ conversation_systems[Neighbour] \in Threads
  /\ conversation_systems' = conversation_systems
  /\ contexts'[conversation_systems[Neighbour]] # contexts[conversation_systems[Neighbour]]

\* C21: a turn processed for one identity leaves the context (history,
\* specification, stage, shortlist, pending order) of the other identity's
\* system as it was.
TurnsKeepOtherIdentity ==
  [][ /\ (CustomerStep /\ HasSystem(Neighbour)) => ContextOf(Neighbour)' = ContextOf(Neighbour)
      /\ (NeighbourStep /\ HasSystem(Customer)) => ContextOf(Customer)' = ContextOf(Customer)
    ]_vars

\* the neighbour is in the middle of a dialogue (two messages, a shortlist)
\* and the customer's turn has just pinned an order
TurnsKeepOtherIdentityWitness ==
  /\ HasSystem(Neighbour)
  /\ ContextOf(Neighbour).user_query_history >= 2
  /\ ContextOf(Neighbour).selected_products # <<>>
  /\ ContextOf(Neighbour).stage = "spec_gathering"
  /\ last.handler = "handle_quantity_input"
  /\ stage = "order_completed"


\* C22: handle_quantity_input that hits an internal error ends the turn
\* with a reply; it does not call itself (and with it the oracle, the stock
\* query and save_order) again.
NoAutomaticRetry == IsQuantityInput(last) => ~last.retried


(***************************************************************************)
(* search_exact_product on its own: one catalog row of interest, behind a  *)
(* number of rows named "AAA 1100*200 Knn" that sort before it.            *)
(***************************************************************************)
\* rows that sort before the row of interest, at most
MaxDecoys == 20

Name(text, runs, seps) == [text |-> text, runs |-> runs, seps |-> seps]

\* "AAA 1100*200 K01", ...: the patterns for (100, 200) match inside
\* "1100*200"; the digits of "K01" follow a letter and are neither a token
\* nor part of a match
Decoy == Name("AAA 1100*200 Knn", <<Run(1100, TRUE), Run(200, TRUE)>>, <<"*">>)

ProbedNames ==
  {Name("ANS 100*200 SIL", <<Run(100, TRUE), Run(200, TRUE)>>, <<"*">>),
   Name("100-50-200-XYZ", <<Run(100, TRUE), Run(50, TRUE), Run(200, TRUE)>>, <<"-", "-">>),
   Name("ANS 100*2000 SIL", <<Run(100, TRUE), Run(2000, TRUE)>>, <<"*">>),
   Name("ANS100*200", <<Run(100, FALSE), Run(200, TRUE)>>, <<"*">>),
   Name("50 ANS 100*200", <<Run(50, TRUE), Run(100, TRUE), Run(200, TRUE)>>, <<"far", "*">>),
   Name("100*50 100*200", <<Run(100, TRUE), Run(50, TRUE), Run(100, TRUE), Run(200, TRUE)>>,
        <<"*", " ", "*">>),
   Name("100*1000 5", <<Run(100, TRUE), Run(1000, TRUE), Run(5, TRUE)>>, <<"*", " ">>)}

ProbedPairs == {<<100, 200>>, <<50, 200>>, <<100, 100>>, <<200, 100>>}

\* the catalog holds decoys rows of Decoy and then the row name; returned
\* tells whether search_exact_product(d, s) returns that row
SearchExactProduct ==
  /\ last = Observation("init")
  /\ \E name \in ProbedNames, pair \in ProbedPairs, decoys \in 0..MaxDecoys :
       LET names == [i \in 1..decoys |-> Decoy] \o <<name>>
           d == pair[1]
           s == pair[2]
           rows == AcceptedRows(names, d, s)
       IN  last' = [handler |-> "search_exact_product", name |-> name, d |-> d, s |-> s,
                    decoys |-> decoys,
                    returned |-> (\E k \in 1..Len(rows) : rows[k] = decoys + 1)]
  /\ UNCHANGED <<specs, stage, selected_products, current_order, user_tone, db>>
  /\ UNCHANGED bridge

NextSearch == SearchExactProduct

SpecSearch == Init /\ [][NextSearch]_vars

IsSearch(obs) == obs.handler = "search_exact_product"

\* a d token and an s token next to each other among the numeric tokens
AdjacentTokens(nums, d, s) ==
  \E i, j \in 1..Len(nums) : nums[i] = d /\ nums[j] = s /\ Abs(i - j) = 1

\* C23: search_exact_product(d, s) returns a row only if d and s are
\* standalone numeric tokens of its name and, with three or more numeric
\* tokens, a d token and an s token are adjacent; it never returns
\* "100-50-200-XYZ" for (100, 200) and it returns "ANS 100*200 SIL".
ExactSearchAcceptance ==
  IsSearch(last) =>
    LET nums == Numbers(last.name)
    IN  /\ last.returned =>
             /\ last.d \in SeqToSet(nums)
             /\ last.s \in SeqToSet(nums)
             /\ Len(nums) >= 3 => AdjacentTokens(nums, last.d, last.s)
        /\ (last.name.text = "100-50-200-XYZ" /\ last.d = 100 /\ last.s = 200)
             => ~last.returned
        /\ (last.name.text = "ANS 100*200 SIL" /\ last.d = 100 /\ last.s = 200)
             => last.returned


(***************************************************************************)
(* The regex pass filling in what the oracle left empty.                   *)
(***************************************************************************)
\* the oracle answered: the call returned and its text was JSON
OracleAnswered(obs) == IsResponse(obs) /\ ~obs.failed /\ ~obs.malformed

\* C27: for each of diameter, stroke and quantity, when the oracle returns
\* null for the field and the regex pass finds a value in the same
\* utterance, the result of parse_user_input carries the regex value.
RegexFillsMissingFields ==
  OracleAnswered(last)
    => /\ (last.od = None /\ Truthy(last.rd)) => last.pd = last.rd
       /\ (last.os = None /\ Truthy(last.rs)) => last.ps = last.rs
       /\ (last.oq = None /\ Truthy(last.rq)) => last.pq = last.rq

(***************************************************************************)
(* The tone of the session over a dialogue in which some messages carry a  *)
(* friendly word and others do not.                                        *)
(***************************************************************************)
\* "abi tamir takımı lazım": "abi" is one of friendly_words (row 1 matches)
UttFriendly == Utt(None, None, None, TRUE, FALSE, TRUE, FALSE, FALSE, FALSE,
                   "tamir", "none", "none", FALSE, FALSE, None, None, FALSE)

ToneResponse ==
  \E o \in OracleDialogue,
     u \in {UttFriendly, UttDiameter, UttKit} :
     generate_response(o, u)

NextTone == ToneResponse

SpecTone == Init /\ [][NextTone]_vars

\* C30: once the tone of a session has been set to friendly by a friendly
\* word, it stays friendly on every later turn of the session.
FriendlyToneStays ==
  [][ user_tone = "friendly" => user_tone' = "friendly" ]_vars


(***************************************************************************)
(* The shortlist while the session waits for a selection.                  *)
(***************************************************************************)
\* len(selected_products), 0 when the shortlist is None
ShortlistSize ==
  IF selected_products = NoneList THEN 0 ELSE Len(selected_products)

\* C28: whenever conversation_stage is product_selection, the shortlist
\* selected_products holds more than one candidate.
SelectionHasSeveralCandidates ==
  stage = "product_selection" => ShortlistSize > 1


(***************************************************************************)
(* Dialogues in which the customer gives a diameter, is asked for the      *)
(* stroke and answers with a diameter again or with punctuation only.      *)
(***************************************************************************)
GatheringResponse ==
  \E o \in OracleDimensions, u \in {UttDiameter, UttDots} :
     generate_response(o, u)

NextGathering == GatheringResponse

SpecGathering == Init /\ [][NextGathering]_vars

\* the keyword search of the turn returned products
KeywordResolved(obs) == IsResponse(obs) /\ Truthy(obs.kwHits)

\* C29: when extracted_specs holds a diameter or a stroke, a turn never
\* resolves products through the keyword search.
NoKeywordSearchWithDimensions ==
  KeywordResolved(last) => ~Truthy(last.kwD) /\ ~Truthy(last.kwS)

(***************************************************************************)
(* The replies that list the stroke options of a diameter.  stroke_options *)
(* is the dict a stroke-options query returned, kept as the sequence of    *)
(* its items in insertion order: stroke value and aggregate stock.         *)
(***************************************************************************)
MaxOptions == 6
MaxOptionStock == 2

\* [:5] of the replies of conversation_system.py, [:3] of the inquiry
ListedStrokes == 5
PopularStrokes == 3

\* the keys of the dicts, in the order the rows put them in
OptionKeys == <<300, 100, 600, 200, 500, 400, 800, 700>>

StrokeOptionDicts ==
  UNION { { [i \in 1..n |-> [stroke |-> OptionKeys[i], stock |-> f[i]]] :
              f \in [1..n -> 1..MaxOptionStock] } : n \in 0..MaxOptions }

RECURSIVE TotalStock(_)
TotalStock(items) ==
  IF items = <<>> THEN 0 ELSE Head(items).stock + TotalStock(Tail(items))

\* sorted(items, key=total stock, reverse=True), a stable sort
RECURSIVE InsertByStock(_, _)
InsertByStock(x, sorted) ==
  IF sorted = <<>> THEN <<x>>
  ELSE IF x.stock > Head(sorted).stock THEN <<x>> \o sorted
       ELSE <<Head(sorted)>> \o InsertByStock(x, Tail(sorted))

RECURSIVE SortByStock(_)
SortByStock(q) ==
  IF q = <<>> THEN <<>>
  ELSE InsertByStock(q[Len(q)], SortByStock(SubSeq(q, 1, Len(q) - 1)))

\* sorted(stroke_options.keys())
RECURSIVE InsertByKey(_, _)
InsertByKey(x, sorted) ==
  IF sorted = <<>> THEN <<x>>
  ELSE IF x.stroke < Head(sorted).stroke THEN <<x>> \o sorted
       ELSE <<Head(sorted)>> \o InsertByKey(x, Tail(sorted))

RECURSIVE SortByKey(_)
SortByKey(q) ==
  IF q = <<>> THEN <<>>
  ELSE InsertByKey(q[Len(q)], SortByKey(SubSeq(q, 1, Len(q) - 1)))

\* q[:k]
Slice(q, k) == SubSeq(q, 1, IF Len(q) < k THEN Len(q) ELSE k)

Strokes(items) == [i \in 1..Len(items) |-> items[i].stroke]

\* what a reply says of the options: the count and the total it states
\* (None when it states none) and the strokes it lists
StrokeReply(route, options, count, total, listed) ==
  [handler |-> "stroke_reply", route |-> route, options |-> options,
   count |-> count, total |-> total, listed |-> listed]

\* _generate_structured_response, "Stage: Need stroke information"
structured_stroke_reply(stroke_options) ==
  IF stroke_options # <<>>
  THEN StrokeReply("structured", stroke_options, Len(stroke_options),
                   TotalStock(stroke_options),
                   Strokes(Slice(SortByStock(stroke_options), ListedStrokes)))
  ELSE StrokeReply("structured", stroke_options, None, None, <<>>)

\* _enhance_ai_response_with_data, "Stroke options for diameter"
enhance_stroke_reply(stroke_options) ==
  IF stroke_options # <<>>
  THEN StrokeReply("enhance", stroke_options, None, None,
                   Strokes(Slice(SortByKey(stroke_options), ListedStrokes)))
  ELSE StrokeReply("enhance", stroke_options, None, None, <<>>)

\* _generate_progressive_inquiry, "Diameter varsa, stroke yoksa"
progressive_stroke_inquiry(stroke_options) ==
  IF stroke_options # <<>>
  THEN StrokeReply("progressive_inquiry", stroke_options, Len(stroke_options),
                   TotalStock(stroke_options),
                   Strokes(Slice(SortByStock(stroke_options), PopularStrokes)))
  ELSE StrokeReply("progressive_inquiry", stroke_options, None, None, <<>>)

\* what a probe leaves alone: the session and the bridge
Untouched == UNCHANGED <<specs, stage, selected_products, current_order, user_tone, db, conversation_systems, contexts, requests>>

StructuredStrokeReply ==
  /\ last = Observation("init")
  /\ \E options \in StrokeOptionDicts : last' = structured_stroke_reply(options)
  /\ Untouched

EnhanceStrokeReply ==
  /\ last = Observation("init")
  /\ \E options \in StrokeOptionDicts : last' = enhance_stroke_reply(options)
  /\ Untouched

ProgressiveStrokeInquiry ==
  /\ last = Observation("init")
  /\ \E options \in StrokeOptionDicts : last' = progressive_stroke_inquiry(options)
  /\ Untouched

NextOptions ==
  \/ StructuredStrokeReply
  \/ EnhanceStrokeReply
  \/ ProgressiveStrokeInquiry

SpecOptions == Init /\ [][NextOptions]_vars

IsStrokeReply(obs) == obs.handler = "stroke_reply"

\* the number of options a reply of the route lists at most
Listed(route) ==
  IF route = "progressive_inquiry" THEN PopularStrokes ELSE ListedStrokes

StockOfStroke(options, v) ==
  LET i == CHOOSE j \in 1..Len(options) : options[j].stroke = v
  IN  options[i].stock

\* C24: when the diameter is known, the stroke is not and the stroke options
\* are not empty, the reply states the number of distinct stroke options,
\* states their total aggregate stock, and lists the K options with the
\* highest aggregate stock (K = 5 in conversation_system.py, 3 in the
\* inquiry engine).
StrokeOptionsReply ==
  (IsStrokeReply(last) /\ last.options # <<>>)
    => LET keys == SeqToSet(Strokes(last.options))
           listed == SeqToSet(last.listed)
           K == Listed(last.route)
       IN  /\ last.count = Len(last.options)
           /\ last.total = TotalStock(last.options)
           /\ Len(last.listed) = IF Len(last.options) < K THEN Len(last.options) ELSE K
           /\ Cardinality(listed) = Len(last.listed)
           /\ listed \subseteq keys
           /\ \A x \in listed, y \in keys \ listed :
                StockOfStroke(last.options, x) >= StockOfStroke(last.options, y)


(***************************************************************************)
(* The option queries of progressive_inquiry_system.py.  No name of the    *)
(* catalog holds STROK, STR, Ø or ÇAP, so only the first two patterns of   *)
(* each query can match.                                                   *)
(***************************************************************************)
\* matches[0] of the first stroke pattern that matches the upper-cased name
\* (None when none does)
InquiryStrokeOfName(p, diameter) ==
  LET m1 == {i \in 1..Len(p.seps) : EndsWith(p.runs[i].n, diameter) /\ p.seps[i] = "*"}
      m2 == {i \in 1..Len(p.seps) : EndsWith(p.runs[i].n, diameter) /\ p.seps[i] = "/"}
      Min(S) == CHOOSE x \in S : \A y \in S : x <= y
  IN  IF m1 # {} THEN p.runs[Min(m1) + 1].n
      ELSE IF m2 # {} THEN p.runs[Min(m2) + 1].n
      ELSE None

\* matches[0] of the first diameter pattern that matches
DiameterOfName(p, stroke) ==
  LET m1 == {i \in 1..Len(p.seps) : p.seps[i] = "*" /\ StartsWith(p.runs[i+1].n, stroke)}
      m2 == {i \in 1..Len(p.seps) : p.seps[i] = "/" /\ StartsWith(p.runs[i+1].n, stroke)}
      Min(S) == CHOOSE x \in S : \A y \in S : x <= y
  IN  IF m1 # {} THEN p.runs[Min(m1)].n
      ELSE IF m2 # {} THEN p.runs[Min(m2)].n
      ELSE None

\* WHERE malzeme_adi ILIKE %v% AND stock > 0 ORDER BY current_stock DESC:
\* the rows with their stock (rows of equal stock in catalog order)
RowsByStock(v, st) ==
  LET ids == {id \in StrokeRowIds(v) : st[id] > 0}
      rows == RowsFrom(1, ids)
  IN  SortByStock([i \in 1..Len(rows) |-> Snapshot(rows[i], st)])

\* a dict with the value of one key set
Put(options, key, value) ==
  [k \in DOMAIN options \cup {key} |-> IF k = key THEN value ELSE options[k]]

\* the loop of _get_stroke_options over the rows
RECURSIVE stroke_options_loop(_, _, _)
stroke_options_loop(rows, diameter, stroke_options) ==
  IF rows = <<>> THEN stroke_options
  ELSE LET stroke_value == InquiryStrokeOfName(Product(Head(rows).id), diameter)
           stock == Head(rows).stock
       IN  stroke_options_loop(Tail(rows), diameter,
             IF stroke_value = None THEN stroke_options
             ELSE IF stroke_value \in DOMAIN stroke_options
                  THEN Put(stroke_options, stroke_value, stroke_options[stroke_value] + stock)
                  ELSE Put(stroke_options, stroke_value, stock))

\* _get_stroke_options
inquiry_get_stroke_options(diameter, st) ==
  stroke_options_loop(RowsByStock(diameter, st), diameter, <<>>)

\* the loop of _get_diameter_options over the rows
RECURSIVE diameter_options_loop(_, _, _)
diameter_options_loop(rows, stroke, diameter_options) ==
  IF rows = <<>> THEN diameter_options
  ELSE LET diameter_value == DiameterOfName(Product(Head(rows).id), stroke)
           stock == Head(rows).stock
       IN  diameter_options_loop(Tail(rows), stroke,
             IF diameter_value = None THEN diameter_options
             ELSE IF diameter_value \in DOMAIN diameter_options
                  THEN Put(diameter_options, diameter_value,
                           diameter_options[diameter_value] + stock)
                  ELSE Put(diameter_options, diameter_value, diameter_value))

\* _get_diameter_options
get_diameter_options(stroke, st) ==
  diameter_options_loop(RowsByStock(stroke, st), stroke, <<>>)

\* the dimensions the queries are asked for
AskedDimensions == {5, 20, 50, 100, 200}

OptionsAnswer(query, asked, st, returned) ==
  [handler |-> "options", query |-> query, asked |-> asked, st |-> st,
   returned |-> returned]

GetStrokeOptions ==
  /\ last = Observation("init")
  /\ \E d \in AskedDimensions, st \in StockOf(ProductIds) :
       last' = OptionsAnswer("get_stroke_options", d, st, get_stroke_options(d, st))
  /\ Untouched

InquiryGetStrokeOptions ==
  /\ last = Observation("init")
  /\ \E d \in AskedDimensions, st \in StockOf(ProductIds) :
       last' = OptionsAnswer("_get_stroke_options", d, st,
                             inquiry_get_stroke_options(d, st))
  /\ Untouched

GetDiameterOptions ==
  /\ last = Observation("init")
  /\ \E s \in AskedDimensions, st \in StockOf(ProductIds) :
       last' = OptionsAnswer("_get_diameter_options", s, st,
                             get_diameter_options(s, st))
  /\ Untouched

NextQueries ==
  \/ GetStrokeOptions
  \/ InquiryGetStrokeOptions
  \/ GetDiameterOptions

SpecQueries == Init /\ [][NextQueries]_vars

IsOptions(obs) == obs.handler = "options"

\* the value the name of a matched row yields for the query
Yields(query, id, asked) ==
  IF query = "get_stroke_options" THEN StrokeOfName(Product(id), asked)
  ELSE IF query = "_get_stroke_options" THEN InquiryStrokeOfName(Product(id), asked)
  ELSE DiameterOfName(Product(id), asked)

\* C25: the stroke-options-for-diameter and the diameter-options-for-stroke
\* queries each return a map in which the value of every key v is the sum of
\* the stock of all matched catalog rows whose name yields v.
OptionsAggregateStock ==
  IsOptions(last)
    => LET matched == {id \in StrokeRowIds(last.asked) : last.st[id] > 0}
       IN  \A v \in DOMAIN last.returned :
             last.returned[v] =
               SumStock({id \in matched : Yields(last.query, id, last.asked) = v},
                        last.st)


(***************************************************************************)
(* analyze_and_respond of progressive_inquiry_system.py.  The inputs are   *)
(* the QueryUnderstanding of the text, the stock column of the catalog,    *)
(* the feature counts found in the documents of ChromaDB and the answer of *)
(* ChromaDB to the product search.                                         *)
(***************************************************************************)
Understanding(diameter, stroke, features, application, quantity, intent) ==
  [diameter |-> diameter, stroke |-> stroke, features |-> features,
   application |-> application, quantity |-> quantity, intent |-> intent]

\* primary intents of QueryRAGSystem; none of them holds "silindir" or
\* "cylinder"
Intents == {"product_search", "size_specification"}

Understandings ==
  {Understanding(d, s, f, a, q, i) :
     d \in {None, 100}, s \in {None, 200}, f \in {{}, {"magnetic"}},
     a \in {None, 1}, q \in {None, 1}, i \in Intents}

\* what _get_feature_options returns ({} also when ChromaDB raises)
\* ("magnetic" stands for the key "Manyetik sensörlü", "cushion" for
\* "Yastıklamalı")
FeatureOptions ==
  { <<>>, [f \in {"magnetic"} |-> 1], [f \in {"magnetic", "cushion"} |-> 1] }

\* collection.query of _generate_complete_response: it raises, or returns
\* no document, or returns documents
ChromaAnswers == {"raises", "none", "documents"}

\* any(cat in understanding.intent.lower() for cat in product_categories)
NamesCategory(intent) == intent \in {"silindir", "cylinder"}

\* _detect_missing_information
detect_missing_information(understanding) ==
  (IF Truthy(understanding.diameter) /\ ~Truthy(understanding.stroke)
   THEN {"stroke"} ELSE {})
  \cup (IF Truthy(understanding.stroke) /\ ~Truthy(understanding.diameter)
        THEN {"diameter"} ELSE {})
  \cup (IF NamesCategory(understanding.intent) /\ understanding.features = {}
        THEN {"features"} ELSE {})
  \cup (IF understanding.intent = "product_search" /\ ~Truthy(understanding.application)
        THEN {"application"} ELSE {})
  \cup (IF ~Truthy(understanding.quantity) THEN {"quantity"} ELSE {})

\* _analyze_available_options: the dict of the option dicts
analyze_available_options(understanding, st, feature_options) ==
  LET d == understanding.diameter
      s == understanding.stroke
      keys == (IF Truthy(d) /\ ~Truthy(s) THEN {"stroke_options"} ELSE {})
              \cup (IF Truthy(s) /\ ~Truthy(d) THEN {"diameter_options"} ELSE {})
              \cup (IF Truthy(d) \/ Truthy(s) THEN {"feature_options"} ELSE {})
  IN  [k \in keys |->
         IF k = "stroke_options" THEN inquiry_get_stroke_options(d, st)
         ELSE IF k = "diameter_options" THEN get_diameter_options(s, st)
         ELSE feature_options]

\* an InquiryResponse: its type, what its follow-up questions ask for,
\* whether main_response names a product ("En uygun seçenek: ..."), and
\* available_options
InquiryResponse(understanding, response_type, asks, recommends, available_options) ==
  [handler |-> "analyze_and_respond", understanding |-> understanding,
   response_type |-> response_type, asks |-> asks, recommends |-> recommends,
   available_options |-> available_options]

Option(available_options, key) ==
  IF key \in DOMAIN available_options THEN available_options[key] ELSE <<>>

\* _generate_progressive_inquiry
generate_progressive_inquiry(understanding, missing_info, available_options) ==
  LET d == understanding.diameter
      s == understanding.stroke
      dimension ==
        IF Truthy(d) /\ "stroke" \in missing_info
        THEN IF DOMAIN Option(available_options, "stroke_options") # {}
             THEN {"stroke"} ELSE {}
        ELSE IF Truthy(s) /\ "diameter" \in missing_info
        THEN IF DOMAIN Option(available_options, "diameter_options") # {}
             THEN {"diameter"} ELSE {}
        ELSE IF ~Truthy(d) /\ ~Truthy(s) THEN {"diameter", "stroke"}
        ELSE {}
      feature ==
        IF Cardinality(DOMAIN Option(available_options, "feature_options")) > 1
        THEN {"feature"} ELSE {}
  IN  InquiryResponse(understanding, "progressive_inquiry", dimension \cup feature,
                      FALSE, available_options)

\* _generate_complete_response
generate_complete_response(understanding, available_options, chroma) ==
  IF chroma = "documents"
  THEN InquiryResponse(understanding, "complete", {}, TRUE, available_options)
  ELSE IF chroma = "none"
  THEN InquiryResponse(understanding, "complete", {"features"}, FALSE, <<>>)
  ELSE InquiryResponse(understanding, "complete", {}, FALSE, <<>>)

\* analyze_and_respond
analyze_and_respond(understanding, st, feature_options, chroma) ==
  LET missing_info == detect_missing_information(understanding)
      available_options == analyze_available_options(understanding, st, feature_options)
  IN  IF missing_info # {} /\ DOMAIN available_options # {}
      THEN generate_progressive_inquiry(understanding, missing_info, available_options)
      ELSE generate_complete_response(understanding, available_options, chroma)

AnalyzeAndRespond ==
  /\ last = Observation("init")
  /\ \E understanding \in Understandings, st \in StockOf(ProductIds),
        feature_options \in FeatureOptions, chroma \in ChromaAnswers :
       last' = analyze_and_respond(understanding, st, feature_options, chroma)
  /\ Untouched

NextInquiry == AnalyzeAndRespond

SpecInquiry == Init /\ [][NextInquiry]_vars

IsInquiry(obs) == obs.handler = "analyze_and_respond"

\* C26: when the understanding holds neither a diameter nor a stroke, the
\* inquiry engine answers with a progressive inquiry that asks for the
\* diameter and holds no product options and no recommendation.
NoDimensionAsksDiameter ==
  (/\ IsInquiry(last)
   /\ ~Truthy(last.understanding.diameter)
   /\ ~Truthy(last.understanding.stroke))
    => /\ last.response_type = "progressive_inquiry"
       /\ "diameter" \in last.asks
       /\ ~last.recommends
       /\ DOMAIN last.available_options \cap {"stroke_options", "diameter_options"} = {}


\* C37: when the understanding holds both a diameter and a stroke,
\* analyze_and_respond returns a response of type complete that carries the
\* result of the product search, not a progressive inquiry.
BothDimensionsComplete ==
  (/\ IsInquiry(last)
   /\ Truthy(last.understanding.diameter)
   /\ Truthy(last.understanding.stroke))
    => last.response_type = "complete"


(***************************************************************************)
(* Degraded dialogues on texts that name a product family or an            *)
(* implausible diameter.                                                   *)
(***************************************************************************)
\* "100 çap silindir": three words, one of them "silindir"
UttCylinder == Utt(100, None, None, FALSE, TRUE, TRUE, FALSE, TRUE, FALSE,
                   "none", "none", "none", FALSE, FALSE, 100, None, FALSE)
\* "5000 çap"
UttHuge == Utt(5000, None, None, FALSE, FALSE, TRUE, FALSE, FALSE, FALSE,
               "none", "none", "none", FALSE, FALSE, 5000, None, FALSE)

FallbackResponse ==
  \E o \in OracleDegraded, u \in {UttDiameter, UttStroke, UttCylinder, UttHuge} :
     generate_response(o, u)

NextFallback == FallbackResponse

SpecFallback == Init /\ [][NextFallback]_vars

\* C32: when the oracle call fails on a turn whose text holds a diameter
\* and/or a stroke that the regex pass recognises, extracted_specs holds
\* those values after the turn.
FallbackValuesHeld ==
  (IsResponse(last) /\ (last.failed \/ last.malformed))
    => /\ Truthy(last.rd) => specs.diameter = last.rd
       /\ Truthy(last.rs) => specs.stroke = last.rs

\* C35: after any sequence of turns extracted_specs never holds a diameter
\* above 1000 or a stroke above 2000, whichever source produced the value.
SpecsWithinLimits ==
  /\ specs.diameter <= DiameterLimit
  /\ specs.stroke <= StrokeLimit


(***************************************************************************)
(* The ordering stages and the pending order.                              *)
(***************************************************************************)
\* C33: in every reachable state, stage order_creation or order_confirmation
\* implies that current_order is set, and the stage becomes
\* order_confirmation only from order_creation and only with the quantity of
\* current_order set.
OrderStagesHavePendingOrder ==
  [][ /\ stage' \in {"order_creation", "order_confirmation"}
           => current_order' # NoOrder
      /\ (stage # "order_confirmation" /\ stage' = "order_confirmation")
           => /\ stage = "order_creation"
              /\ current_order'.quantity # None ]_vars


\* an order summary: the quantity was accepted in order_creation and the
\* session waits for the confirmation
OrderStagesHavePendingOrderWitness ==
  /\ stage = "order_confirmation"
  /\ last.reply = "order_summary"
  /\ current_order.form = "dict"
  /\ Truthy(current_order.quantity)

\* C34: the stage becomes order_creation only for a product whose known
\* stock is greater than 0, on every pinning path; a product with stock <= 0
\* is never the pending order of a session in order_creation.
PinnedOnlyInStock ==
  stage = "order_creation" => current_order.stock > 0


\* C36: a numeric quantity reply for a pinned product whose stock in the
\* catalog is 0 (or whose stock lookup fails) always ends the turn with an
\* out-of-stock reply, persists nothing and leaves the stage and
\* current_order unchanged, whichever way the product was pinned.
NoStockReply ==
  [][ (IsQuantityInput(last') /\ last'.live = 0)
      => /\ last'.reply = "out_of_stock"
         /\ last'.saves = 0
         /\ stage' = stage
         /\ current_order' = current_order ]_vars


(***************************************************************************)
(* The simplified web chat, src/web_chat/app_simple.py: one global         *)
(* conversation_context, a mock catalog, and a pattern parser.  The        *)
(* context of the application is held in the field conversation_context of *)
(* last, with the parsed message and the reply of the turn beside it.      *)
(***************************************************************************)
\* turns of one conversation before /api/reset
MaxTurns == 4
\* entries of user_preferences['features'], which extend() only lengthens
MaxFeatures == 2

\* MOCK_PRODUCTS: the fields the search reads
MOCK_PRODUCTS ==
  << [id |-> 1, diameter |-> 100, stroke |-> 400, features |-> {"magnetic"}, stock |-> 3],
     [id |-> 2, diameter |-> 100, stroke |-> 400, features |-> {"magnetic"}, stock |-> 2],
     [id |-> 3, diameter |-> 100, stroke |-> 350, features |-> {}, stock |-> 5],
     [id |-> 4, diameter |-> 100, stroke |-> 200, features |-> {"magnetic"}, stock |-> 8] >>

\* the conversation_context of a fresh module and of /api/reset
InitialConversationContext ==
  [stage |-> "discovery",
   user_preferences |-> [diameter |-> None, stroke |-> None, features |-> <<>>,
                         quantity |-> None],
   conversation_history |-> 0,
   found_products |-> <<>>]

\* what parse_user_input and the tests of generate_response read off a
\* message: the parsed fields, whether the text holds SILINDIR or NABER, and
\* whether its upper case is one of EVET, ONAYLA, TAMAM, OK
Message(d, s, f, q, greeting, casual, naber, cylinder, affirmative) ==
  [diameter |-> d, stroke |-> s, features |-> f, quantity |-> q,
   greeting |-> greeting, casual |-> casual, naber |-> naber,
   cylinder |-> cylinder, affirmative |-> affirmative]

\* "merhaba", "naber", "sag ol", "silindir", "100 cap", "50 cap",
\* "400 strok", "100 cap 400 strok", "magnet", "2 adet", "9 adet", "evet"
ChatMessages ==
  { Message(None, None, <<>>, None, TRUE, FALSE, FALSE, FALSE, FALSE),
    Message(None, None, <<>>, None, TRUE, TRUE, TRUE, FALSE, FALSE),
    Message(None, None, <<>>, None, FALSE, TRUE, FALSE, FALSE, FALSE),
    Message(None, None, <<>>, None, FALSE, FALSE, FALSE, TRUE, FALSE),
    Message(100, None, <<>>, None, FALSE, FALSE, FALSE, FALSE, FALSE),
    Message(50, None, <<>>, None, FALSE, FALSE, FALSE, FALSE, FALSE),
    Message(None, 400, <<>>, None, FALSE, FALSE, FALSE, FALSE, FALSE),
    Message(100, 400, <<>>, None, FALSE, FALSE, FALSE, FALSE, FALSE),
    Message(None, None, <<"magnetic">>, None, FALSE, FALSE, FALSE, FALSE, FALSE),
    Message(None, None, <<>>, 2, FALSE, FALSE, FALSE, FALSE, FALSE),
    Message(None, None, <<>>, 9, FALSE, FALSE, FALSE, FALSE, FALSE),
    Message(None, None, <<>>, None, FALSE, FALSE, FALSE, FALSE, TRUE) }

\* search_products: the products in stock that match, highest stock first
search_products(diameter, stroke, features) ==
  LET match(p) ==
        /\ Truthy(diameter) => p.diameter = diameter
        /\ Truthy(stroke) => p.stroke = stroke
        /\ SeqToSet(features) \subseteq p.features
        /\ p.stock > 0
  IN  SortByStock(SelectSeq(MOCK_PRODUCTS, match))

\* get_stroke_options, as the caller uses it: the total stock of the
\* products of the diameter that are in stock (0 for an empty dict)
simple_get_stroke_options(diameter) ==
  TotalStock(SelectSeq(MOCK_PRODUCTS,
                       LAMBDA p : p.diameter = diameter /\ p.stock > 0))

\* the update of user_preferences at the head of generate_response
update_preferences(prefs, parsed) ==
  [diameter |-> IF Truthy(parsed.diameter) THEN parsed.diameter ELSE prefs.diameter,
   stroke |-> IF Truthy(parsed.stroke) THEN parsed.stroke ELSE prefs.stroke,
   features |-> prefs.features \o parsed.features,
   quantity |-> IF Truthy(parsed.quantity) THEN parsed.quantity ELSE prefs.quantity]

\* the context and the reply of a turn
Turn(context, response) == [context |-> context, response |-> response]

\* generate_response of app_simple, on the parsed message
simple_generate_response(context, parsed) ==
  LET prefs == update_preferences(context.user_preferences, parsed)
      c0 == [context EXCEPT !.user_preferences = prefs]
      diameter == prefs.diameter
      stroke == prefs.stroke
      quantity == prefs.quantity
      products == search_products(diameter, stroke, prefs.features)
  IN
  IF parsed.greeting THEN Turn(c0, "greeting")
  ELSE IF parsed.casual /\ parsed.naber THEN Turn(c0, "fine_thanks")
  ELSE IF parsed.cylinder /\ ~Truthy(diameter) THEN Turn(c0, "ask_diameter_for_cylinder")
  ELSE IF Truthy(diameter) /\ Truthy(stroke) THEN
    IF products # <<>>
    THEN Turn([c0 EXCEPT !.found_products = products, !.stage = "ordering"],
              "ask_quantity")
    ELSE Turn(c0, "not_in_stock")
  ELSE IF Truthy(diameter) /\ ~Truthy(stroke) THEN
    IF simple_get_stroke_options(diameter) > 0
    THEN Turn([c0 EXCEPT !.stage = "specification"], "ask_stroke")
    ELSE Turn(c0, "diameter_not_in_stock")
  ELSE IF Truthy(quantity) /\ c0.stage = "ordering" THEN
    IF c0.found_products # <<>>
    THEN IF quantity > c0.found_products[1].stock
         THEN Turn(c0, "only_in_stock")
         ELSE Turn([c0 EXCEPT !.stage = "confirmation"], "ask_confirmation")
    ELSE Turn(c0, "default")
  ELSE IF parsed.affirmative /\ c0.stage = "confirmation"
    THEN Turn([c0 EXCEPT !.stage = "completed"], "order_saved")
  ELSE IF ~Truthy(diameter) THEN Turn(c0, "ask_diameter")
  ELSE Turn(c0, "default")

\* the global conversation_context of the application
conversation_context ==
  IF last.handler = "app_simple" THEN last.conversation_context
  ELSE InitialConversationContext

SimpleObservation(route, context, message, response) ==
  [handler |-> "app_simple", route |-> route, conversation_context |-> context,
   before |-> conversation_context.stage, message |-> message,
   response |-> response]

\* POST /api/chat with a message that is not empty
chat ==
  /\ conversation_context.conversation_history < MaxTurns
  /\ \E m \in ChatMessages :
       /\ Len(conversation_context.user_preferences.features) + Len(m.features)
            <= MaxFeatures
       /\ LET t == simple_generate_response(conversation_context, m)
              c == [t.context EXCEPT !.conversation_history = @ + 1]
          IN  last' = SimpleObservation("chat", c, m, t.response)
  /\ Untouched

\* the message that holds nothing
NoMessage == Message(None, None, <<>>, None, FALSE, FALSE, FALSE, FALSE, FALSE)

\* POST /api/chat with an empty message: 400, nothing changes
chat_empty ==
  /\ last' = SimpleObservation("empty", conversation_context, NoMessage, "error")
  /\ Untouched

\* POST /api/reset
reset_chat ==
  /\ last' = SimpleObservation("reset", InitialConversationContext, NoMessage, "reset")
  /\ Untouched

NextSimple ==
  \/ chat
  \/ chat_empty
  \/ reset_chat

SpecSimple == Init /\ [][NextSimple]_vars

\* a turn of /api/chat that generate_response answered
IsChat(obs) ==
  /\ obs.handler = "app_simple"
  /\ obs.route = "chat"

\* C38: in the simplified web chat, once a matching product was found
\* (stage ordering), a message that gives a quantity within the stock of the
\* found product moves the stage to confirmation, and an affirmative reply
\* that follows (stage confirmation) moves it to completed.
QuantityThenConfirmation ==
  /\ (/\ IsChat(last)
      /\ last.before = "ordering"
      /\ Truthy(last.message.quantity)
      /\ last.message.quantity <= last.conversation_context.found_products[1].stock)
       => last.conversation_context.stage = "confirmation"
  /\ (/\ IsChat(last)
      /\ last.before = "confirmation"
      /\ last.message.affirmative)
       => last.conversation_context.stage = "completed"


(***************************************************************************)
(* Two sessions side by side.  contexts[1] and contexts[2] are the         *)
(* contexts of two conversation systems; on every step each of them        *)
(* processes one message alone.  last keeps, for both, the utterance, the  *)
(* answer of the oracle, the dict parse_user_input returned, and the       *)
(* answers of the catalog queries of the turn in the order they were made. *)
(***************************************************************************)
\* "50 çap", "silindir", "bir olsun", "iptal" with an oracle that returns
\* request_params below the confidence threshold and either no dimension or
\* the diameter 50
TwinMessages ==
  {[o |-> Oracle(FALSE, d, None, {}, None, NoBrand, NoQuery, TRUE, "spec_query", 5,
                 "request_params"),
    u |-> u] : d \in {None, 50}, u \in {UttDiameter, UttGeneric, UttWords, UttCancel}}

\* the answers of the catalog to the queries of a turn: the position of the
\* request after the query, with the rows or the options it returned
RECURSIVE CatalogAnswers(_, _)
CatalogAnswers(c, r) ==
  IF r.pc = "done" THEN <<>>
  ELSE LET after == generate_response_step(c, r)
           answer == IF after.r.pc \in {"shortlist", "gathered", "options", "matched",
                                       "searched"}
                     THEN << [query |-> after.r.pc, products |-> after.r.products,
                              options |-> after.r.options] >>
                     ELSE <<>>
       IN  answer \o CatalogAnswers(after.c, after.r)

\* the catalog answers of the message m processed alone on the context c
AnswersTo(c, m) ==
  CatalogAnswers(c, [IdleRequest EXCEPT !.pc = "merge", !.o = m.o, !.u = m.u])

TwinObservation(m1, m2) ==
  [handler |-> "twins", same |-> contexts[1] = contexts[2],
   before |-> contexts[1].stage,
   o1 |-> m1.o, o2 |-> m2.o, u1 |-> m1.u, u2 |-> m2.u,
   parsed1 |-> parse_user_input(m1.o, m1.u),
   parsed2 |-> parse_user_input(m2.o, m2.u),
   answers1 |-> AnswersTo(contexts[1], m1),
   answers2 |-> AnswersTo(contexts[2], m2)]

\* a turn of each of the two sessions: generate_response on its own context
TwinTurn ==
  /\ contexts[1].user_query_history < MaxHistory
  /\ contexts[2].user_query_history < MaxHistory
  /\ \E m1, m2 \in TwinMessages :
       /\ contexts' = [contexts EXCEPT ![1] = Processed(@, m1),
                                       ![2] = Processed(@, m2)]
       /\ last' = TwinObservation(m1, m2)
  /\ UNCHANGED <<specs, stage, selected_products, current_order, user_tone, db,
                 conversation_systems, requests>>

NextTwins == TwinTurn

SpecTwins == Init /\ [][NextTwins]_vars

\* the stage, the specification, the shortlist and the pending order
Outcome(c) == <<c.stage, c.specs, c.selected_products, c.current_order>>

\* the two sessions had the same context before the turn, and the turn gave
\* both the same parse and the same catalog answers
SameTurn(obs) ==
  /\ obs.handler = "twins"
  /\ obs.same
  /\ obs.parsed1 = obs.parsed2
  /\ obs.answers1 = obs.answers2

=============================================================================
